---- MODULE Spec2Model ----
(***************************************************************************)
(* A model of the ptmalloc allocator engine of glibc (malloc.c, 64-bit     *)
(* layout), main arena.  Memory is a sparse map from byte                  *)
(* addresses of 8-byte words to their contents; the main arena's bin       *)
(* headers, top and last_remainder live in the same address space so that  *)
(* the chunk view of a bin header (bin_at) overlays the bins array exactly *)
(* as in the C structure.  Every public entry is one action.               *)
(***************************************************************************)
EXTENDS Integers, Sequences, FiniteSets, TLC

(***************************************************************************)
(* Bounds of the model                                                     *)
(***************************************************************************)
MaxLive == 3
MaxHeapPages == 6
MaxMaps == 2
MaxOps == 5
MaxOpsArena == 6
MaxOpsLarge == 7
MaxOpsTcache == 6
MaxOpsTiers == 6
MaxOpsTrim == 6
MaxOpsRealloc == 5
MaxOpsDouble == 5
MaxOpsLifo == 6
MaxOpsFail == 4
MaxOpsFast == 4
MaxOpsThreshold == 5
MaxOpsMmapMax == 5
MaxOpsAutoTrim == 5
MaxOpsDrain == 2
MaxOpsStash == 6
MaxOpsBest == 9
MaxOpsBinmap == 6
MaxOpsTop == 6
MaxOpsFit == 6
MaxOpsDyn == 5
MaxOpsShutdown == 6
MaxOpsLock == 4
StashRoom == 2
MaxOpsAlign == 4
RoomyHeapPages == 40

(***************************************************************************)
(* Program constants                                                       *)
(***************************************************************************)
SIZE_SZ == 8
MALLOC_ALIGNMENT == 2 * SIZE_SZ
MALLOC_ALIGN_MASK == MALLOC_ALIGNMENT - 1
MIN_CHUNK_SIZE == 4 * SIZE_SZ
PREV_INUSE == 1
IS_MMAPPED == 2
NON_MAIN_ARENA == 4
SIZE_BITS == PREV_INUSE + IS_MMAPPED + NON_MAIN_ARENA
NBINS == 128
NSMALLBINS == 64
SMALLBIN_WIDTH == MALLOC_ALIGNMENT
SMALLBIN_CORRECTION == IF MALLOC_ALIGNMENT > 2 * SIZE_SZ THEN 1 ELSE 0
MIN_LARGE_SIZE == (NSMALLBINS - SMALLBIN_CORRECTION) * SMALLBIN_WIDTH
BINMAPSHIFT == 5
BITSPERMAP == 32
BINMAPSIZE == NBINS \div BITSPERMAP
MAX_FAST_SIZE == (80 * SIZE_SZ) \div 4
DEFAULT_MXFAST == (64 * SIZE_SZ) \div 4
FASTBIN_CONSOLIDATION_THRESHOLD == 65536
NONCONTIGUOUS_BIT == 2
TCACHE_MAX_BINS == 64
TCACHE_FILL_COUNT == 7
DEFAULT_TOP_PAD == 0
DEFAULT_MMAP_THRESHOLD == 128 * 1024
DEFAULT_MMAP_THRESHOLD_MAX == 4 * 1024 * 1024 * SIZE_SZ
DEFAULT_TRIM_THRESHOLD == 128 * 1024
DEFAULT_MMAP_MAX == 65536
MMAP_AS_MORECORE_SIZE == 1024 * 1024
MAX_ITERS == 10000
pagesize == 4096
sizeof_malloc_chunk == 6 * SIZE_SZ
sizeof_tcache_perthread_struct == 2 * TCACHE_MAX_BINS + SIZE_SZ * TCACHE_MAX_BINS
ENOMEM == 12
EINVAL == 22
MORECORE_FAILURE == -1

(***************************************************************************)
(* Address space.  The chunk view of bin 1 starts at &main_arena.top       *)
(***************************************************************************)
ArenaBase == 4 * MALLOC_ALIGNMENT
InitialBrk == pagesize
BrkLimit == InitialBrk + MaxHeapPages * pagesize
MmapBase == 16 * 1024 * 1024
MmapSlot == 64 * 1024 * 1024
\* a request no mapping and no extension of the heap can hold
TooMuch == MmapSlot + BrkLimit

Threads == {1, 2}

ALIGN_DOWN(x, a) == x - (x % a)
ALIGN_UP(x, a) == ALIGN_DOWN(x + a - 1, a)
\* A 64-bit word is held as the integer it denotes when read as a signed
\* long; the values of the model stay far from the ends of that range, so
\* sums and differences are the mathematical ones.  The unsigned
\* comparisons of the code order the negative values above the others.
ULT(a, b) == IF (a < 0) = (b < 0) THEN a < b ELSE b < 0
ULE(a, b) == a = b \/ ULT(a, b)
UGT(a, b) == ULT(b, a)
UGE(a, b) == ULE(b, a)
\* ((x & (x - 1)) == 0)
powerof2(x) == x = 0 \/ \E k \in 0..30 : x = 2^k
Max(a, b) == IF a >= b THEN a ELSE b
Min(a, b) == IF a <= b THEN a ELSE b

(***************************************************************************)
(* Size and alignment conversions                                          *)
(***************************************************************************)
MINSIZE == ALIGN_UP(MIN_CHUNK_SIZE, MALLOC_ALIGNMENT)
chunk2mem(p) == p + 2 * SIZE_SZ
mem2chunk(m) == m - 2 * SIZE_SZ
aligned_OK(m) == m % MALLOC_ALIGNMENT = 0

\* request2size that compares the bare request with MINSIZE
request2size_bare(req) ==
  IF req < MINSIZE
    THEN MINSIZE
    ELSE ALIGN_DOWN(req + SIZE_SZ + MALLOC_ALIGN_MASK, MALLOC_ALIGNMENT)

request2size(req) ==
  IF req + SIZE_SZ + MALLOC_ALIGN_MASK < MINSIZE
    THEN MINSIZE
    ELSE ALIGN_DOWN(req + SIZE_SZ + MALLOC_ALIGN_MASK, MALLOC_ALIGNMENT)

\* req > PTRDIFF_MAX, an unsigned comparison
checked_request2size(req) == req >= 0

(***************************************************************************)
(* Size-class indexing                                                     *)
(***************************************************************************)
in_smallbin_range(sz) == sz < MIN_LARGE_SIZE
\* smallbin_index one bin too far
smallbin_index_next(sz) == (sz \div 16) + SMALLBIN_CORRECTION + 1
smallbin_index(sz) == (sz \div 16) + SMALLBIN_CORRECTION

largebin_index_64(sz) ==
  IF (sz \div 64) <= 48 THEN 48 + (sz \div 64)
  ELSE IF (sz \div 512) <= 20 THEN 91 + (sz \div 512)
  ELSE IF (sz \div 4096) <= 10 THEN 110 + (sz \div 4096)
  ELSE IF (sz \div 32768) <= 4 THEN 119 + (sz \div 32768)
  ELSE IF (sz \div 262144) <= 2 THEN 124 + (sz \div 262144)
  ELSE 126

largebin_index(sz) == largebin_index_64(sz)
bin_index(sz) == IF in_smallbin_range(sz) THEN smallbin_index(sz) ELSE largebin_index(sz)
\* ((unsigned int) sz >> 4) - 2; chunk sizes are below 2^31
fastbin_index(sz) == (sz \div 16) - 2
NFASTBINS == fastbin_index(request2size(MAX_FAST_SIZE)) + 1
csize2tidx(x) == (x - MINSIZE + MALLOC_ALIGNMENT - 1) \div MALLOC_ALIGNMENT
tidx2usize(idx) == idx * MALLOC_ALIGNMENT + MINSIZE - SIZE_SZ
MAX_TCACHE_SIZE == tidx2usize(TCACHE_MAX_BINS - 1)
MAX_TCACHE_COUNT == 65535

idx2block(i) == i \div BITSPERMAP
\* A word of the binmap is held as the set of the positions of its 1 bits,
\* a one-bit mask as the position of its bit (BITSPERMAP once shifted out).
idx2bit(i) == i % BITSPERMAP
HasBit(map, bit) == bit \in map
\* bit > map || bit == 0
BitAbove(map, bit) == bit = BITSPERMAP \/ \A b \in map : b < bit

(***************************************************************************)
(* Memory                                                                  *)
(***************************************************************************)
bin_at(i) == ArenaBase + (i - 1) * 2 * SIZE_SZ
unsorted_chunks == bin_at(1)
initial_top == unsorted_chunks
next_bin(b) == b + 2 * SIZE_SZ
TopAddr == ArenaBase
LastRemainderAddr == ArenaBase + SIZE_SZ
BinsEnd == ArenaBase + 2 * SIZE_SZ + (NBINS * 2 - 2) * SIZE_SZ

RECURSIVE call(_, _)

\* The content of a word that was never written: the state that
\* malloc_init_state leaves in the arena, zero elsewhere.
InitWord(a) ==
  IF a = TopAddr THEN initial_top
  ELSE IF a >= ArenaBase + 2 * SIZE_SZ /\ a < BinsEnd
    THEN ArenaBase + ALIGN_DOWN(a - ArenaBase - 2 * SIZE_SZ, 2 * SIZE_SZ)
  ELSE 0

Rd(s, a) == IF a \in DOMAIN s.mem THEN s.mem[a] ELSE call("InitWord", <<a>>)

Wr(s, a, v) ==
  [s EXCEPT !.mem = IF v = call("InitWord", <<a>>)
                      THEN [x \in (DOMAIN @) \ {a} |-> @[x]]
                      ELSE (a :> v) @@ @]


(***************************************************************************)
(* Physical chunk operations                                               *)
(***************************************************************************)
prev_size(s, p) == Rd(s, p)
chunksize_nomask(s, p) == Rd(s, p + SIZE_SZ)
chunksize(s, p) == ALIGN_DOWN(chunksize_nomask(s, p), 8)
\* prev_inuse that never sees a free predecessor
prev_inuse_always(s, p) == TRUE
prev_inuse(s, p) == chunksize_nomask(s, p) % 2 = 1
chunk_is_mmapped(s, p) == (chunksize_nomask(s, p) \div 2) % 2 = 1
chunk_at_offset(p, off) == p + off
next_chunk(s, p) == p + chunksize(s, p)
prev_chunk(s, p) == p - prev_size(s, p)
\* inuse that takes every chunk to be in use
inuse_always(s, p) == TRUE
inuse(s, p) == prev_inuse(s, next_chunk(s, p))
inuse_bit_at_offset(s, p, off) == prev_inuse(s, p + off)
Fd(s, p) == Rd(s, p + 2 * SIZE_SZ)
Bk(s, p) == Rd(s, p + 3 * SIZE_SZ)
Fd_nextsize(s, p) == Rd(s, p + 4 * SIZE_SZ)
Bk_nextsize(s, p) == Rd(s, p + 5 * SIZE_SZ)
set_fd(s, p, v) == Wr(s, p + 2 * SIZE_SZ, v)
set_bk(s, p, v) == Wr(s, p + 3 * SIZE_SZ, v)
set_fd_nextsize(s, p, v) == Wr(s, p + 4 * SIZE_SZ, v)
set_bk_nextsize(s, p, v) == Wr(s, p + 5 * SIZE_SZ, v)
set_prev_size(s, p, v) == Wr(s, p, v)
set_head(s, p, v) == Wr(s, p + SIZE_SZ, v)
set_head_size(s, p, sz) == Wr(s, p + SIZE_SZ, (chunksize_nomask(s, p) % 8) + sz)
\* set_foot that leaves the successor's prev_size word alone
set_foot_skip(s, p, sz) == s
set_foot(s, p, sz) == Wr(s, p + sz, sz)

set_inuse_bit_at_offset(s, p, off) ==
  LET w == chunksize_nomask(s, p + off)
  IN  IF w % 2 = 1 THEN s ELSE set_head(s, p + off, w + PREV_INUSE)

\* clear_inuse_bit_at_offset that leaves the bit set
clear_inuse_bit_keep(s, p, off) == s

clear_inuse_bit_at_offset(s, p, off) ==
  LET w == chunksize_nomask(s, p + off)
  IN  IF w % 2 = 1 THEN set_head(s, p + off, w - PREV_INUSE) ELSE s

top(s) == Rd(s, TopAddr)
set_top(s, p) == Wr(s, TopAddr, p)
last_remainder(s) == Rd(s, LastRemainderAddr)
set_last_remainder(s, p) == Wr(s, LastRemainderAddr, p)
first(s, b) == Fd(s, b)
last(s, b) == Bk(s, b)
contiguous(s) == (s.av.flags \div NONCONTIGUOUS_BIT) % 2 = 0
set_noncontiguous(s) == IF contiguous(s) THEN [s EXCEPT !.av.flags = @ + NONCONTIGUOUS_BIT] ELSE s
get_max_fast(s) == s.global_max_fast

set_max_fast(s, v) ==
  [s EXCEPT !.global_max_fast =
     IF v = 0 THEN MIN_CHUNK_SIZE \div 2 ELSE ALIGN_DOWN(v + SIZE_SZ, MALLOC_ALIGNMENT)]

\* mark_bin that leaves the binmap as it is
mark_bin_skip(s, i) == s

mark_bin(s, i) ==
  LET w == s.av.binmap[idx2block(i)]
  IN  IF HasBit(w, idx2bit(i)) THEN s
      ELSE [s EXCEPT !.av.binmap[idx2block(i)] = w \cup {idx2bit(i)}]

\* malloc_printerr: the process is terminated with the given tag
malloc_printerr(s, tag) == [s EXCEPT !.err = IF @ = "" THEN tag ELSE @, !.done = TRUE]
Return(s, v) == [s EXCEPT !.ret = v, !.done = TRUE]

\* The mutex of main_arena as the calling thread sees it during one call:
\* held tells that the thread holds it, locks counts its acquisitions,
\* relock tells that the thread asked for it while holding it, bare that
\* _int_free was told have_lock while the thread did not hold it.
\* __libc_lock_lock (av->mutex)
lock_mutex(s) ==
  IF s.held THEN [s EXCEPT !.relock = TRUE]
  ELSE [s EXCEPT !.held = TRUE, !.locks = @ + 1]
\* __libc_lock_unlock (av->mutex)
unlock_mutex(s) == [s EXCEPT !.held = FALSE]
\* arena_get (ar_ptr, bytes): the arena is main_arena, returned locked
arena_get(s) == lock_mutex(s)
\* arena_get_retry (ar_ptr, bytes): the mutex of the arena that failed is
\* unlocked; there is no other arena to return
arena_get_retry(s) == unlock_mutex(s)
\* the end of an entry that got its arena from arena_get: one retry when
\* the engine returned NULL, and the unlock if (ar_ptr != NULL)
retry_and_unlock(s) ==
  IF s.err # "" THEN s
  ELSE IF s.ret = 0 THEN arena_get_retry(s)
  ELSE unlock_mutex(s)
\* set_errno that leaves errno as it is
set_errno_skip(s, e) == s
set_errno(s, e) == [s EXCEPT !.errno = e]

(***************************************************************************)
(* unlink_chunk: take a chunk off a bin list                               *)
(***************************************************************************)
unlink_nextsize(s, p, fd) ==
  IF Bk_nextsize(s, Fd_nextsize(s, p)) # p \/ Fd_nextsize(s, Bk_nextsize(s, p)) # p
    THEN malloc_printerr(s, "corrupted double-linked list (not small)")
  ELSE IF Fd_nextsize(s, fd) = 0
    THEN IF Fd_nextsize(s, p) = p
           THEN set_bk_nextsize(set_fd_nextsize(s, fd, fd), fd, fd)
           ELSE LET s1 == set_fd_nextsize(s, fd, Fd_nextsize(s, p))
                    s2 == set_bk_nextsize(s1, fd, Bk_nextsize(s1, p))
                    s3 == set_bk_nextsize(s2, Fd_nextsize(s2, p), fd)
                IN  set_fd_nextsize(s3, Bk_nextsize(s3, p), fd)
    ELSE LET s1 == set_bk_nextsize(s, Fd_nextsize(s, p), Bk_nextsize(s, p))
         IN  set_fd_nextsize(s1, Bk_nextsize(s1, p), Fd_nextsize(s1, p))

unlink_chunk(s, p) ==
  IF chunksize(s, p) # prev_size(s, next_chunk(s, p))
    THEN malloc_printerr(s, "corrupted size vs. prev_size")
  ELSE
    LET fd == Fd(s, p)
        bk == Bk(s, p)
    IN  IF Bk(s, fd) # p \/ Fd(s, bk) # p
          THEN malloc_printerr(s, "corrupted double-linked list")
        ELSE
          LET s1 == set_fd(set_bk(s, fd, bk), bk, fd)
          IN  IF ~in_smallbin_range(chunksize_nomask(s1, p)) /\ Fd_nextsize(s1, p) # 0
                THEN call("unlink_nextsize", <<s1, p, fd>>)
                ELSE s1

(***************************************************************************)
(* Per-thread cache                                                        *)
(***************************************************************************)
\* tcache_put that does not count the chunk
tcache_put_uncounted(s, t, chunk, tc_idx) ==
  LET e == chunk2mem(chunk)
      s1 == Wr(s, e + SIZE_SZ, s.tcache[t].ptr)
      s2 == Wr(s1, e, s1.tcache[t].entries[tc_idx])
  IN  [s2 EXCEPT !.tcache[t].entries[tc_idx] = e]

tcache_put(s, t, chunk, tc_idx) ==
  LET e == chunk2mem(chunk)
      s1 == Wr(s, e + SIZE_SZ, s.tcache[t].ptr)
      s2 == Wr(s1, e, s1.tcache[t].entries[tc_idx])
  IN  [s2 EXCEPT !.tcache[t].entries[tc_idx] = e,
                 !.tcache[t].counts[tc_idx] = (@ + 1) % 65536]

\* tcache_get that hands the first entry out and leaves it on the bucket
tcache_get_keep(s, t, tc_idx) ==
  LET e == s.tcache[t].entries[tc_idx]
  IN  Return(Wr(s, e + SIZE_SZ, 0), e)

tcache_get(s, t, tc_idx) ==
  LET e == s.tcache[t].entries[tc_idx]
      s1 == [s EXCEPT !.tcache[t].entries[tc_idx] = Rd(s, e),
                      !.tcache[t].counts[tc_idx] = (@ + 65535) % 65536]
  IN  Return(Wr(s1, e + SIZE_SZ, 0), e)

\* the scan of a tcache bucket that finds nothing
tcache_scan_none(s, tmp, e) == FALSE

RECURSIVE tcache_scan(_, _, _)
\* the loop of _int_free that looks for e on a tcache bucket
tcache_scan(s, tmp, e) ==
  IF tmp = 0 THEN FALSE
  ELSE IF tmp = e THEN TRUE
  ELSE tcache_scan(s, Rd(s, tmp), e)

(***************************************************************************)
(* The OS primitives: contiguous heap extension and page mapping           *)
(***************************************************************************)
\* sbrk(incr): the old break, or MORECORE_FAILURE when the limit is hit
sbrk_result(s, incr) ==
  IF s.brk + incr > s.brk_limit \/ s.brk + incr < InitialBrk THEN MORECORE_FAILURE ELSE s.brk

MORECORE(s, incr) ==
  IF sbrk_result(s, incr) = MORECORE_FAILURE THEN s ELSE [s EXCEPT !.brk = @ + incr]

FreeSlots(s) == {k \in 0..(MaxMaps - 1) : \A r \in s.maps : r.base # MmapBase + k * MmapSlot}

\* mmap(0, size): the base of a fresh region, or MORECORE_FAILURE (MAP_FAILED)
mmap_result(s, size) ==
  IF FreeSlots(s) = {} \/ size > MmapSlot THEN MORECORE_FAILURE
  ELSE MmapBase + MmapSlot * (CHOOSE k \in FreeSlots(s) : \A j \in FreeSlots(s) : k <= j)

MMAP(s, size) ==
  IF mmap_result(s, size) = MORECORE_FAILURE THEN s
  ELSE [s EXCEPT !.maps = @ \cup {[base |-> mmap_result(s, size), len |-> size]}]

\* munmap(block, len): the pages leave the address space, their content is lost
munmap(s, block, len) ==
  [s EXCEPT !.maps = {r \in @ : r.base # block},
            !.mem = [x \in {a \in DOMAIN @ : a < block \/ a >= block + len} |-> @[x]]]

(***************************************************************************)
(* systrim, munmap_chunk                                                   *)
(***************************************************************************)
\* systrim that gives back one page a call
systrim_page(s0, pad) ==
  LET s == [s0 EXCEPT !.systrims = @ + 1] IN
  LET top_size == chunksize(s, top(s))
      top_area == top_size - MINSIZE - 1
      extra == Min(ALIGN_DOWN(top_area - pad, pagesize), pagesize)
      current_brk == s.brk
      s1 == MORECORE(s, -extra)
      released == current_brk - s1.brk
  IN  IF ULE(top_area, pad) THEN Return(s, 0)
      ELSE IF extra = 0 THEN Return(s, 0)
      ELSE IF current_brk = top(s) + top_size /\ released # 0
        THEN Return(set_head([s1 EXCEPT !.av.system_mem = @ - released],
                             top(s1), (top_size - released) + PREV_INUSE), 1)
        ELSE Return(s, 0)

\* s.systrims counts the calls of systrim made within one call of the caller
systrim(s0, pad) ==
  LET s == [s0 EXCEPT !.systrims = @ + 1]
      top_size == chunksize(s, top(s))
      top_area == top_size - MINSIZE - 1
      extra == ALIGN_DOWN(top_area - pad, pagesize)
      current_brk == s.brk
      s1 == MORECORE(s, -extra)
      new_brk == s1.brk
      released == current_brk - new_brk
  IN  IF ULE(top_area, pad) THEN Return(s, 0)
      ELSE IF extra = 0 THEN Return(s, 0)
      ELSE IF current_brk = top(s) + top_size
        THEN IF released # 0
               THEN Return(set_head([s1 EXCEPT !.av.system_mem = @ - released],
                                    top(s1), (top_size - released) + PREV_INUSE), 1)
               ELSE Return(s1, 0)
        ELSE Return(s, 0)

munmap_chunk(s, p) ==
  LET size == chunksize(s, p)
      block == p - prev_size(s, p)
      total_size == prev_size(s, p) + size
  IN  IF block % pagesize # 0 \/ total_size % pagesize # 0
         \/ ~powerof2(chunk2mem(p) % pagesize)
        THEN malloc_printerr(s, "munmap_chunk(): invalid pointer")
        ELSE munmap([s EXCEPT !.mp.n_mmaps = @ - 1, !.mp.mmapped_mem = @ - total_size],
                    block, total_size)

(***************************************************************************)
(* malloc_consolidate                                                      *)
(***************************************************************************)
\* the body of the inner loop for one fast chunk p
consolidate_chunk(s, p0) ==
  LET size0 == chunksize(s, p0)
      nextchunk == chunk_at_offset(p0, size0)
      nextsize == chunksize(s, nextchunk)
      back == ~prev_inuse(s, p0)
      prevsize == prev_size(s, p0)
      p == IF back THEN chunk_at_offset(p0, -prevsize) ELSE p0
      size1 == IF back THEN size0 + prevsize ELSE size0
  IN  IF back /\ chunksize(s, p) # prevsize
        THEN malloc_printerr(s, "corrupted size vs. prev_size in fastbins")
      ELSE
        LET s1 == IF back THEN call("unlink_chunk", <<s, p>>) ELSE s
        IN  IF nextchunk # top(s1)
              THEN
                LET nextinuse == inuse_bit_at_offset(s1, nextchunk, nextsize)
                    size == IF nextinuse THEN size1 ELSE size1 + nextsize
                    s2 == IF nextinuse THEN clear_inuse_bit_at_offset(s1, nextchunk, 0)
                                       ELSE call("unlink_chunk", <<s1, nextchunk>>)
                    first_unsorted == Fd(s2, unsorted_chunks)
                    s3 == set_fd(s2, unsorted_chunks, p)
                    s4 == set_bk(s3, first_unsorted, p)
                    s5 == IF ~in_smallbin_range(size)
                            THEN set_bk_nextsize(set_fd_nextsize(s4, p, 0), p, 0)
                            ELSE s4
                    s6 == set_head(s5, p, size + PREV_INUSE)
                    s7 == set_bk(s6, p, unsorted_chunks)
                    s8 == set_fd(s7, p, first_unsorted)
                IN  set_foot(s8, p, size)
              ELSE
                LET size == size1 + nextsize
                IN  set_top(set_head(s1, p, size + PREV_INUSE), p)

RECURSIVE consolidate_chain(_, _, _)
consolidate_chain(s, fbi, p) ==
  IF p = 0 \/ s.err # "" THEN s
  ELSE IF fastbin_index(chunksize(s, p)) # fbi
    THEN malloc_printerr(s, "malloc_consolidate(): invalid chunk size")
  ELSE LET nextp == Fd(s, p)
       IN  consolidate_chain(call("consolidate_chunk", <<s, p>>), fbi, nextp)

RECURSIVE consolidate_bins(_, _)
consolidate_bins(s, fbi) ==
  IF fbi >= NFASTBINS \/ s.err # "" THEN s
  ELSE LET p == s.av.fastbinsY[fbi]
           s1 == [s EXCEPT !.av.fastbinsY[fbi] = 0]
       IN  consolidate_bins(consolidate_chain(s1, fbi, p), fbi + 1)

malloc_consolidate(s) ==
  consolidate_bins([s EXCEPT !.av.have_fastchunks = FALSE], 0)

(***************************************************************************)
(* _int_free                                                               *)
(***************************************************************************)
\* the fast-bin branch of _int_free
\* the fast path of _int_free that links the chunk to no bin
free_fast_drop(s, p, size, have_lock) == s

free_fast(s, p, size, have_lock) ==
  LET nxt == chunk_at_offset(p, size)
      idx == fastbin_index(size)
      old == s.av.fastbinsY[idx]
  IN  IF chunksize_nomask(s, nxt) <= 2 * SIZE_SZ \/ chunksize(s, nxt) >= s.av.system_mem
        THEN malloc_printerr(IF have_lock THEN s ELSE unlock_mutex(lock_mutex(s)),
                             "free(): invalid next size (fast)")
      ELSE IF old = p
        THEN malloc_printerr([s EXCEPT !.av.have_fastchunks = TRUE],
                             "double free or corruption (fasttop)")
      ELSE
        LET s1 == set_fd([s EXCEPT !.av.have_fastchunks = TRUE], p, old)
            s2 == [s1 EXCEPT !.av.fastbinsY[idx] = p]
        IN  IF have_lock /\ old # 0 /\ fastbin_index(chunksize(s2, old)) # idx
              THEN malloc_printerr(s2, "invalid fastbin entry (free)")
              ELSE s2

\* free_trim that never consolidates and never trims
free_trim_never(s, size) == s
\* the tail of the coalescing branch: consolidate and trim after a large free
free_trim(s, size) ==
  IF size >= FASTBIN_CONSOLIDATION_THRESHOLD
    THEN LET s1 == IF s.av.have_fastchunks THEN call("malloc_consolidate", <<s>>) ELSE s
         IN  IF s1.err = "" /\ UGE(chunksize(s1, top(s1)), s1.mp.trim_threshold)
               THEN [call("systrim", <<s1, s1.mp.top_pad>>) EXCEPT !.ret = s.ret, !.done = s.done]
               ELSE s1
    ELSE s

\* free_coalesce that leaves the chunk as it is
free_coalesce_skip(s, p0, size0) == s
\* the coalescing branch of _int_free
free_coalesce(s, p0, size0) ==
  LET nextchunk == chunk_at_offset(p0, size0)
      nextsize == chunksize(s, nextchunk)
      back == ~prev_inuse(s, p0)
      prevsize == prev_size(s, p0)
      p == IF back THEN chunk_at_offset(p0, -prevsize) ELSE p0
      size1 == IF back THEN size0 + prevsize ELSE size0
  IN  IF p0 = top(s)
        THEN malloc_printerr(s, "double free or corruption (top)")
      ELSE IF contiguous(s) /\ nextchunk >= top(s) + chunksize(s, top(s))
        THEN malloc_printerr(s, "double free or corruption (out)")
      ELSE IF ~prev_inuse(s, nextchunk)
        THEN malloc_printerr(s, "double free or corruption (!prev)")
      ELSE IF chunksize_nomask(s, nextchunk) <= 2 * SIZE_SZ \/ nextsize >= s.av.system_mem
        THEN malloc_printerr(s, "free(): invalid next size (normal)")
      ELSE IF back /\ chunksize(s, p) # prevsize
        THEN malloc_printerr(s, "corrupted size vs. prev_size while consolidating")
      ELSE
        LET s1 == IF back THEN call("unlink_chunk", <<s, p>>) ELSE s
        IN  IF s1.err # "" THEN s1
            ELSE IF nextchunk # top(s1)
              THEN
                LET nextinuse == inuse_bit_at_offset(s1, nextchunk, nextsize)
                    size == IF nextinuse THEN size1 ELSE size1 + nextsize
                    s2 == IF nextinuse THEN clear_inuse_bit_at_offset(s1, nextchunk, 0)
                                       ELSE call("unlink_chunk", <<s1, nextchunk>>)
                    bck == unsorted_chunks
                    fwd == Fd(s2, bck)
                IN  IF s2.err # "" THEN s2
                    ELSE IF Bk(s2, fwd) # bck
                      THEN malloc_printerr(s2, "free(): corrupted unsorted chunks")
                    ELSE
                      LET s3 == set_bk(set_fd(s2, p, fwd), p, bck)
                          s4 == IF ~in_smallbin_range(size)
                                  THEN set_bk_nextsize(set_fd_nextsize(s3, p, 0), p, 0)
                                  ELSE s3
                          s5 == set_bk(set_fd(s4, bck, p), fwd, p)
                          s6 == set_foot(set_head(s5, p, size + PREV_INUSE), p, size)
                      IN  call("free_trim", <<s6, size>>)
              ELSE
                LET size == size1 + nextsize
                IN  call("free_trim", <<set_top(set_head(s1, p, size + PREV_INUSE), p), size>>)

_int_free(s, t, p, have_lock) ==
  LET size == chunksize(s, p)
      tc == s.tcache[t]
      tc_idx == csize2tidx(size)
      e == chunk2mem(p)
      use_tcache == tc.ptr # 0 /\ tc_idx < s.mp.tcache_bins
  IN  IF UGT(p, -size) \/ ~aligned_OK(p)
        THEN malloc_printerr(s, "free(): invalid pointer")
      ELSE IF size < MINSIZE \/ ~aligned_OK(size)
        THEN malloc_printerr(s, "free(): invalid size")
      ELSE IF use_tcache /\ Rd(s, e + SIZE_SZ) = tc.ptr /\ tcache_scan(s, tc.entries[tc_idx], e)
        THEN malloc_printerr(s, "free(): double free detected in tcache 2")
      ELSE IF use_tcache /\ tc.counts[tc_idx] < s.mp.tcache_count
        THEN call("tcache_put", <<s, t, p, tc_idx>>)
      ELSE IF size <= get_max_fast(s)
        THEN free_fast(s, p, size, have_lock)
      ELSE IF ~chunk_is_mmapped(s, p)
        THEN
          LET s1 == IF have_lock THEN [s EXCEPT !.bare = @ \/ ~s.held] ELSE lock_mutex(s)
              s2 == call("free_coalesce", <<s1, p, size>>)
          IN  IF have_lock \/ s2.err # "" THEN s2 ELSE unlock_mutex(s2)
      ELSE call("munmap_chunk", <<s, p>>)

(***************************************************************************)
(* sysmalloc: obtain memory from the system (main arena)                   *)
(***************************************************************************)
\* sysmalloc_mmap when the system refuses the mapping
sysmalloc_mmap_refused(s, nb) == s
\* the direct page-mapping of one request (label try_mmap)
sysmalloc_mmap(s, nb) ==
  LET size == ALIGN_UP(nb + SIZE_SZ, pagesize)
      mm == mmap_result(s, size)
  IN  IF UGT(size, nb) /\ mm # MORECORE_FAILURE
        THEN
          LET s1 == MMAP(s, size)
              s2 == set_head(set_prev_size(s1, mm, 0), mm, size + IS_MMAPPED)
              n == s2.mp.n_mmaps + 1
              sum == s2.mp.mmapped_mem + size
          IN  Return([s2 EXCEPT !.mp.n_mmaps = n,
                                !.mp.max_n_mmaps = Max(@, n),
                                !.mp.mmapped_mem = sum,
                                !.mp.max_mmapped_mem = Max(@, sum)],
                     chunk2mem(mm))
        ELSE s

\* the old top is left as it is
sysmalloc_fencepost_none(s, t, old_top, old_size0) == s

\* the double fencepost at the old top after a non-contiguous extension
sysmalloc_fencepost(s, t, old_top, old_size0) ==
  IF old_size0 = 0 THEN s
  ELSE
    LET old_size == ALIGN_DOWN(old_size0 - 4 * SIZE_SZ, MALLOC_ALIGNMENT)
        s1 == set_head(s, old_top, old_size + PREV_INUSE)
        s2 == set_head(s1, chunk_at_offset(old_top, old_size), 2 * SIZE_SZ + PREV_INUSE)
        s3 == set_head(s2, chunk_at_offset(old_top, old_size + 2 * SIZE_SZ),
                       2 * SIZE_SZ + PREV_INUSE)
    IN  IF old_size >= MINSIZE THEN call("_int_free", <<s3, t, old_top, TRUE>>) ELSE s3

\* the adjustments after MORECORE returned space that does not extend the old top
sysmalloc_adjust(s, t, brk, snd_brk0, size, old_top, old_size, old_end) ==
  LET isc == contiguous(s)
      s1 == IF isc /\ old_size # 0
              THEN [s EXCEPT !.av.system_mem = @ + (brk - old_end)] ELSE s
      front_misalign == IF isc THEN chunk2mem(brk) % MALLOC_ALIGNMENT ELSE 0
      corr1 == IF front_misalign > 0 THEN MALLOC_ALIGNMENT - front_misalign ELSE 0
      aligned_brk == brk + corr1
      corr2 == corr1 + old_size
      end_misalign == brk + size + corr2
      corr3 == corr2 + (ALIGN_UP(end_misalign, pagesize) - end_misalign)
      snd_ok == sbrk_result(s1, corr3) # MORECORE_FAILURE
      correction == IF isc THEN (IF snd_ok THEN corr3 ELSE 0) ELSE 0
      s2 == IF isc THEN MORECORE(s1, corr3) ELSE s1
      snd_brk == IF isc THEN (IF snd_ok THEN sbrk_result(s1, corr3) ELSE s1.brk)
                 ELSE IF snd_brk0 = MORECORE_FAILURE THEN s1.brk ELSE snd_brk0
      s3 == set_top(s2, aligned_brk)
      s4 == set_head(s3, aligned_brk, (snd_brk - aligned_brk + correction) + PREV_INUSE)
      s5 == [s4 EXCEPT !.av.system_mem = @ + correction]
  IN  call("sysmalloc_fencepost", <<s5, t, old_top, old_size>>)

\* the extension of the main arena through MORECORE, with mmap as a backup
sysmalloc_morecore(s, t, nb, old_top, old_size, old_end) ==
  LET size0 == nb + s.mp.top_pad + MINSIZE
      size1 == ALIGN_UP(IF contiguous(s) THEN size0 - old_size ELSE size0, pagesize)
      try1 == size1 > 0
      brk1 == IF try1 THEN sbrk_result(s, size1) ELSE MORECORE_FAILURE
      s1 == IF try1 THEN MORECORE(s, size1) ELSE s
      size2 == Max(IF contiguous(s) THEN ALIGN_UP(size1 + old_size, pagesize) ELSE size1,
                   MMAP_AS_MORECORE_SIZE)
      mbrk == IF brk1 = MORECORE_FAILURE /\ UGT(size2, nb)
                THEN mmap_result(s1, size2) ELSE MORECORE_FAILURE
      viaMmap == brk1 = MORECORE_FAILURE /\ mbrk # MORECORE_FAILURE
      brk == IF viaMmap THEN mbrk ELSE brk1
      snd_brk == IF viaMmap THEN mbrk + size2 ELSE MORECORE_FAILURE
      size == IF brk1 = MORECORE_FAILURE THEN size2 ELSE size1
      s2 == IF viaMmap THEN set_noncontiguous(MMAP(s1, size2)) ELSE s1
  IN  IF brk = MORECORE_FAILURE THEN s2
      ELSE
        LET s3 == [s2 EXCEPT !.mp.sbrk_base = IF @ = 0 THEN brk ELSE @,
                             !.av.system_mem = @ + size]
        IN  IF brk = old_end /\ snd_brk = MORECORE_FAILURE
              THEN set_head(s3, old_top, (size + old_size) + PREV_INUSE)
            ELSE IF contiguous(s3) /\ old_size # 0 /\ brk < old_end
              THEN malloc_printerr(s3, "break adjusted to free malloc space")
            ELSE call("sysmalloc_adjust", <<s3, t, brk, snd_brk, size, old_top, old_size, old_end>>)

\* the carving that leaves the P bit of the new top clear
sysmalloc_carve_bare(s, nb) ==
  LET s1 == [s EXCEPT !.av.max_system_mem = Max(@, s.av.system_mem)]
      p == top(s1)
      size == chunksize(s1, p)
  IN  IF size >= nb + MINSIZE
        THEN
          LET remainder == chunk_at_offset(p, nb)
              s2 == set_top(s1, remainder)
              s3 == set_head(s2, p, nb + PREV_INUSE)
              s4 == set_head(s3, remainder, size - nb)
          IN  Return(s4, chunk2mem(p))
        ELSE Return(set_errno(s1, ENOMEM), 0)

\* the final carving of the request from the (possibly new) top
sysmalloc_carve(s, nb) ==
  LET s1 == [s EXCEPT !.av.max_system_mem = Max(@, s.av.system_mem)]
      p == top(s1)
      size == chunksize(s1, p)
  IN  IF size >= nb + MINSIZE
        THEN
          LET remainder == chunk_at_offset(p, nb)
              s2 == set_top(s1, remainder)
              s3 == set_head(s2, p, nb + PREV_INUSE)
              s4 == set_head(s3, remainder, (size - nb) + PREV_INUSE)
          IN  Return(s4, chunk2mem(p))
        ELSE Return(set_errno(s1, ENOMEM), 0)

\* sysmalloc that maps every request, whatever the number of mapped chunks
sysmalloc_uncapped(s, t, nb) ==
  LET s1 == call("sysmalloc_mmap", <<s, nb>>)
  IN  IF s1.done THEN s1 ELSE Return(set_errno(s1, ENOMEM), 0)

sysmalloc(s, t, nb) ==
  LET wants_mmap == nb >= s.mp.mmap_threshold /\ s.mp.n_mmaps < s.mp.n_mmaps_max
      s1 == IF wants_mmap THEN call("sysmalloc_mmap", <<s, nb>>) ELSE s
      old_top == top(s1)
      old_size == chunksize(s1, old_top)
      old_end == chunk_at_offset(old_top, old_size)
  IN  IF s1.done THEN s1
      ELSE IF ~((old_top = initial_top /\ old_size = 0)
                 \/ (old_size >= MINSIZE /\ prev_inuse(s1, old_top) /\ old_end % pagesize = 0))
        THEN malloc_printerr(s1, "assertion failed: sysmalloc old top")
      ELSE IF ~(old_size < nb + MINSIZE)
        THEN malloc_printerr(s1, "assertion failed: sysmalloc old_size")
      ELSE
        LET s2 == call("sysmalloc_morecore", <<s1, t, nb, old_top, old_size, old_end>>)
        IN  IF s2.err # "" THEN s2 ELSE call("sysmalloc_carve", <<s2, nb>>)

(***************************************************************************)
(* _int_malloc                                                             *)
(***************************************************************************)
tcache_usable(s, t, tc_idx) == s.tcache[t].ptr # 0 /\ tc_idx < s.mp.tcache_bins

RECURSIVE fast_stash(_, _, _, _)
\* while the fast bin is not empty and the tcache bucket not full, copy chunks
fast_stash(s, t, idx, tc_idx) ==
  LET tc_victim == s.av.fastbinsY[idx]
  IN  IF s.tcache[t].counts[tc_idx] < s.mp.tcache_count /\ tc_victim # 0
        THEN fast_stash(call("tcache_put", <<[s EXCEPT !.av.fastbinsY[idx] = Fd(s, tc_victim)],
                                   t, tc_victim, tc_idx>>),
                        t, idx, tc_idx)
        ELSE s

malloc_fast(s, t, nb) ==
  LET idx == fastbin_index(nb)
      victim == s.av.fastbinsY[idx]
      tc_idx == csize2tidx(nb)
  IN  IF nb <= get_max_fast(s) /\ victim # 0
        THEN
          LET s1 == [s EXCEPT !.av.fastbinsY[idx] = Fd(s, victim)]
          IN  IF fastbin_index(chunksize(s1, victim)) # idx
                THEN malloc_printerr(s1, "malloc(): memory corruption (fast)")
                ELSE Return(IF tcache_usable(s1, t, tc_idx)
                              THEN fast_stash(s1, t, idx, tc_idx) ELSE s1,
                            chunk2mem(victim))
        ELSE s

RECURSIVE small_stash(_, _, _, _, _)
\* while the small bin is not empty and the tcache bucket not full, copy chunks over
small_stash(s, t, nb, bin, tc_idx) ==
  LET tc_victim == last(s, bin)
  IN  IF s.tcache[t].counts[tc_idx] < s.mp.tcache_count /\ tc_victim # bin
        THEN
          LET bck == Bk(s, tc_victim)
              s1 == set_inuse_bit_at_offset(s, tc_victim, nb)
              s2 == set_fd(set_bk(s1, bin, bck), bck, bin)
          IN  small_stash(call("tcache_put", <<s2, t, tc_victim, tc_idx>>), t, nb, bin, tc_idx)
        ELSE s

\* malloc_small that never consolidates
malloc_small_keep(s, t, nb) ==
  IF in_smallbin_range(nb) /\ last(s, bin_at(smallbin_index(nb))) # bin_at(smallbin_index(nb))
    THEN LET victim == last(s, bin_at(smallbin_index(nb)))
             bck == Bk(s, victim)
             s1 == set_inuse_bit_at_offset(s, victim, nb)
             s2 == set_fd(set_bk(s1, bin_at(smallbin_index(nb)), bck), bck,
                          bin_at(smallbin_index(nb)))
         IN  Return(s2, chunk2mem(victim))
    ELSE s

malloc_small(s, t, nb) ==
  LET idx == smallbin_index(nb)
      bin == bin_at(idx)
      victim == last(s, bin)
      bck == Bk(s, victim)
      tc_idx == csize2tidx(nb)
  IN  IF in_smallbin_range(nb)
        THEN IF victim # bin
               THEN IF Fd(s, bck) # victim
                      THEN malloc_printerr(s, "malloc(): smallbin double linked list corrupted")
                      ELSE
                        LET s1 == set_inuse_bit_at_offset(s, victim, nb)
                            s2 == set_fd(set_bk(s1, bin, bck), bck, bin)
                        IN  Return(IF tcache_usable(s2, t, tc_idx)
                                     THEN small_stash(s2, t, nb, bin, tc_idx) ELSE s2,
                                   chunk2mem(victim))
               ELSE s
        ELSE IF s.av.have_fastchunks THEN call("malloc_consolidate", <<s>>) ELSE s

\* the chunk is handed out whole, whatever its size
split_never(s, victim, size, nb, setlr, tag) == set_inuse_bit_at_offset(s, victim, size)

\* split victim (already off its list) for nb and put the remainder on the
\* unsorted list; setlr: advertise the remainder as last remainder
split_to_unsorted(s, victim, size, nb, setlr, tag) ==
  LET remainder_size == size - nb
      remainder == chunk_at_offset(victim, nb)
      bck == unsorted_chunks
      fwd == Fd(s, bck)
  IN  IF remainder_size < MINSIZE
        THEN set_inuse_bit_at_offset(s, victim, size)
      ELSE IF Bk(s, fwd) # bck
        THEN malloc_printerr(s, tag)
      ELSE
        LET s1 == set_fd(set_bk(s, remainder, bck), remainder, fwd)
            s2 == set_bk(set_fd(s1, bck, remainder), fwd, remainder)
            s3 == IF setlr THEN set_last_remainder(s2, remainder) ELSE s2
            s4 == IF ~in_smallbin_range(remainder_size)
                    THEN set_bk_nextsize(set_fd_nextsize(s3, remainder, 0), remainder, 0)
                    ELSE s3
            s5 == set_head(s4, victim, nb + PREV_INUSE)
            s6 == set_head(s5, remainder, remainder_size + PREV_INUSE)
        IN  set_foot(s6, remainder, remainder_size)

RECURSIVE largebin_skip(_, _, _)
\* walk fd_nextsize from fwd while size < chunksize_nomask(fwd)
largebin_skip(s, fwd, size) ==
  IF size < chunksize_nomask(s, fwd) THEN largebin_skip(s, Fd_nextsize(s, fwd), size) ELSE fwd

\* place victim (off the unsorted list) in its small or large bin
\* the sorted insertion that takes every large chunk for the smallest of
\* its bin and links it last
bin_insert_last(s, victim, size0) ==
  LET small == in_smallbin_range(size0)
      victim_index == IF small THEN smallbin_index(size0) ELSE largebin_index(size0)
      bin == bin_at(victim_index)
      fwd0 == Fd(s, bin)
      link(st, bck, fwd) ==
        LET s1 == mark_bin(st, victim_index)
            s2 == set_fd(set_bk(s1, victim, bck), victim, fwd)
        IN  set_fd(set_bk(s2, fwd, victim), bck, victim)
  IN  IF small THEN link(s, bin, fwd0)
      ELSE IF fwd0 = bin
        THEN link(set_bk_nextsize(set_fd_nextsize(s, victim, victim), victim, victim), bin, fwd0)
      ELSE
        LET fwd == bin
            bck == Bk(s, bin)
            s1 == set_fd_nextsize(s, victim, Fd(s, fwd))
            s2 == set_bk_nextsize(s1, victim, Bk_nextsize(s1, Fd(s1, fwd)))
            s3 == set_fd_nextsize(s2, Bk_nextsize(s2, victim), victim)
            s4 == set_bk_nextsize(s3, Fd(s3, fwd), victim)
        IN  link(s4, bck, fwd)

bin_insert(s, victim, size0) ==
  LET small == in_smallbin_range(size0)
      victim_index == IF small THEN smallbin_index(size0) ELSE largebin_index(size0)
      bin == bin_at(victim_index)
      fwd0 == Fd(s, bin)
      size == size0 + PREV_INUSE
      link(st, bck, fwd) ==
        LET s1 == mark_bin(st, victim_index)
            s2 == set_fd(set_bk(s1, victim, bck), victim, fwd)
        IN  set_fd(set_bk(s2, fwd, victim), bck, victim)
  IN  IF small THEN link(s, bin, fwd0)
      ELSE IF fwd0 = bin
        THEN link(set_bk_nextsize(set_fd_nextsize(s, victim, victim), victim, victim), bin, fwd0)
      ELSE IF size < chunksize_nomask(s, Bk(s, bin))
        THEN
          LET fwd == bin
              bck == Bk(s, bin)
              s1 == set_fd_nextsize(s, victim, Fd(s, fwd))
              s2 == set_bk_nextsize(s1, victim, Bk_nextsize(s1, Fd(s1, fwd)))
              s3 == set_fd_nextsize(s2, Bk_nextsize(s2, victim), victim)
              s4 == set_bk_nextsize(s3, Fd(s3, fwd), victim)
          IN  link(s4, bck, fwd)
      ELSE
        LET fwd1 == largebin_skip(s, fwd0, size)
        IN  IF size = chunksize_nomask(s, fwd1)
              THEN
                LET fwd == Fd(s, fwd1)
                    bck == Bk(s, fwd)
                IN  IF Fd(s, bck) # fwd
                      THEN malloc_printerr(s, "malloc(): largebin double linked list corrupted (bk)")
                      ELSE link(s, bck, fwd)
              ELSE
                LET fwd == fwd1
                    s1 == set_fd_nextsize(s, victim, fwd)
                    s2 == set_bk_nextsize(s1, victim, Bk_nextsize(s1, fwd))
                IN  IF Fd_nextsize(s2, Bk_nextsize(s2, fwd)) # fwd
                      THEN malloc_printerr(s2,
                             "malloc(): largebin double linked list corrupted (nextsize)")
                      ELSE
                        LET s3 == set_bk_nextsize(s2, fwd, victim)
                            s4 == set_fd_nextsize(s3, Bk_nextsize(s3, victim), victim)
                            bck == Bk(s4, fwd)
                        IN  IF Fd(s4, bck) # fwd
                              THEN malloc_printerr(s4,
                                     "malloc(): largebin double linked list corrupted (bk)")
                              ELSE link(s4, bck, fwd)

\* a bucket that never takes a chunk of the unsorted list
stash_room_never(s, t, tcache_nb, tc_idx) == FALSE

\* if (tcache_nb && tcache->counts[tc_idx] < mp_.tcache_count)
stash_room(s, t, tcache_nb, tc_idx) ==
  tcache_nb # 0 /\ s.tcache[t].counts[tc_idx] < s.mp.tcache_count

RECURSIVE unsorted_loop(_, _, _, _, _)
\* the while loop over the unsorted list; s.rc is return_cached, s.tuc is
\* tcache_unsorted_count and s.stash notes the chunks put into the tcache
unsorted_loop(s, t, nb, tcache_nb, iters) ==
  LET victim == Bk(s, unsorted_chunks)
      bck == Bk(s, victim)
      size == chunksize(s, victim)
      next == chunk_at_offset(victim, size)
      tc_idx == csize2tidx(nb)
  IN  IF s.err # "" \/ victim = unsorted_chunks THEN s
      ELSE IF size <= 2 * SIZE_SZ \/ size > s.av.system_mem
        THEN malloc_printerr(s, "malloc(): invalid size (unsorted)")
      ELSE IF chunksize_nomask(s, next) < 2 * SIZE_SZ
              \/ chunksize_nomask(s, next) > s.av.system_mem
        THEN malloc_printerr(s, "malloc(): invalid next size (unsorted)")
      ELSE IF ALIGN_DOWN(prev_size(s, next), 8) # size
        THEN malloc_printerr(s, "malloc(): mismatching next->prev_size (unsorted)")
      ELSE IF Fd(s, bck) # victim \/ Fd(s, victim) # unsorted_chunks
        THEN malloc_printerr(s, "malloc(): unsorted double linked list corrupted")
      ELSE IF prev_inuse(s, next)
        THEN malloc_printerr(s, "malloc(): invalid next->prev_inuse (unsorted)")
      ELSE IF in_smallbin_range(nb) /\ bck = unsorted_chunks
              /\ victim = last_remainder(s) /\ size > nb + MINSIZE
        THEN
          LET remainder_size == size - nb
              remainder == chunk_at_offset(victim, nb)
              s1 == set_fd(set_bk(s, unsorted_chunks, remainder), unsorted_chunks, remainder)
              s2 == set_last_remainder(s1, remainder)
              s3 == set_fd(set_bk(s2, remainder, unsorted_chunks), remainder, unsorted_chunks)
              s4 == IF ~in_smallbin_range(remainder_size)
                      THEN set_bk_nextsize(set_fd_nextsize(s3, remainder, 0), remainder, 0)
                      ELSE s3
              s5 == set_head(s4, victim, nb + PREV_INUSE)
              s6 == set_head(s5, remainder, remainder_size + PREV_INUSE)
          IN  Return(set_foot(s6, remainder, remainder_size), chunk2mem(victim))
      ELSE
        LET u1 == set_fd(set_bk(s, unsorted_chunks, bck), bck, unsorted_chunks)
        IN  IF size = nb
              THEN
                LET u2 == set_inuse_bit_at_offset(u1, victim, size)
                IN  IF stash_room(u2, t, tcache_nb, tc_idx)
                      THEN unsorted_loop([call("tcache_put", <<u2, t, victim, tc_idx>>)
                                            EXCEPT !.rc = TRUE, !.stash = Append(@, victim)],
                                         t, nb, tcache_nb, iters)
                      ELSE Return(u2, chunk2mem(victim))
              ELSE
                LET u2 == call("bin_insert", <<u1, victim, size>>)
                    u3 == [u2 EXCEPT !.tuc = @ + 1]
                IN  IF u3.err # "" THEN u3
                    ELSE IF u3.rc /\ u3.mp.tcache_unsorted_limit > 0
                            /\ u3.tuc > u3.mp.tcache_unsorted_limit
                      THEN call("tcache_get", <<u3, t, tc_idx>>)
                    ELSE IF iters + 1 >= MAX_ITERS THEN u3
                    ELSE unsorted_loop(u3, t, nb, tcache_nb, iters + 1)

\* the largest chunk of the bin instead of the smallest that fits
largebin_largest(s, victim, nb) == Fd_nextsize(s, victim)

RECURSIVE largebin_fit(_, _, _)
\* walk bk_nextsize from victim while chunksize(victim) < nb
largebin_fit(s, victim, nb) ==
  IF chunksize(s, victim) < nb THEN largebin_fit(s, Bk_nextsize(s, victim), nb) ELSE victim

\* a large request: the smallest chunk of the request's own bin that fits
malloc_largebin(s, nb, idx) ==
  LET bin == bin_at(idx)
      frst == first(s, bin)
  IN  IF ~in_smallbin_range(nb) /\ frst # bin /\ chunksize_nomask(s, frst) >= nb
        THEN
          LET v1 == largebin_fit(s, Bk_nextsize(s, frst), nb)
              size == chunksize(s, v1)
              victim == IF v1 # last(s, bin)
                           /\ chunksize_nomask(s, v1) = chunksize_nomask(s, Fd(s, v1))
                          THEN Fd(s, v1) ELSE v1
              \* s.picked notes the chunk taken from a bin: its size and whether
              \* unlink_chunk finds it on the skip list
              s1 == [call("unlink_chunk", <<s, victim>>)
                       EXCEPT !.picked = <<[victim |-> victim, size |-> size, from |-> "own",
                                            rep |-> Fd_nextsize(s, victim) # 0]>>]
          IN  IF s1.err # "" THEN s1
              ELSE Return(call("split_to_unsorted", <<s1, victim, size, nb, FALSE,
                                            "malloc(): corrupted unsorted chunks">>),
                          chunk2mem(victim))
        ELSE s

RECURSIVE binmap_next_block(_, _)
\* do { if (++block >= BINMAPSIZE) goto use_top; } while ((map = binmap[block]) == 0)
binmap_next_block(s, block) ==
  IF block + 1 >= BINMAPSIZE THEN BINMAPSIZE
  ELSE IF s.av.binmap[block + 1] = {} THEN binmap_next_block(s, block + 1)
  ELSE block + 1

RECURSIVE binmap_scan(_, _, _, _, _, _)
\* the search of the bins above the request's own, driven by the binmap
binmap_scan(s, nb, block0, map0, bit0, bin0) ==
  LET skip == BitAbove(map0, bit0)
      block == IF skip THEN binmap_next_block(s, block0) ELSE block0
  IN  IF block >= BINMAPSIZE THEN s
      ELSE
        LET map == IF skip THEN s.av.binmap[block] ELSE map0
            bit1 == IF skip THEN 0 ELSE bit0
            bin1 == IF skip THEN bin_at(block * BITSPERMAP) ELSE bin0
            \* while ((bit & map) == 0) { bin = next_bin (bin); bit <<= 1; }
            bit == CHOOSE j \in bit1..(BITSPERMAP - 1) :
                     HasBit(map, j) /\ \A i \in bit1..(j - 1) : ~HasBit(map, i)
            bin == bin1 + (bit - bit1) * 2 * SIZE_SZ
            victim == last(s, bin)
        IN  IF victim = bin
              THEN binmap_scan([s EXCEPT !.av.binmap[block] = map \ {bit}], nb, block,
                               map \ {bit}, bit + 1, next_bin(bin))
              ELSE
                LET size == chunksize(s, victim)
                    s1 == [call("unlink_chunk", <<s, victim>>)
                             EXCEPT !.picked = <<[victim |-> victim, size |-> size,
                                                  from |-> "scan",
                                                  rep |-> ~in_smallbin_range(size)
                                                          /\ Fd_nextsize(s, victim) # 0]>>]
                IN  IF size < nb
                      THEN malloc_printerr(s, "assertion failed: size >= nb")
                    ELSE IF s1.err # "" THEN s1
                    ELSE Return(call("split_to_unsorted", <<s1, victim, size, nb, in_smallbin_range(nb),
                                                  "malloc(): corrupted unsorted chunks 2">>),
                                chunk2mem(victim))

RECURSIVE malloc_search(_, _, _, _)
\* the outer for (;;) of _int_malloc
malloc_search(s, t, nb, idx) ==
  LET tc_idx == csize2tidx(nb)
      s1 == call("unsorted_loop", <<s, t, nb, IF tcache_usable(s, t, tc_idx) THEN nb ELSE 0, 0>>)
  IN  IF s1.done THEN s1
      ELSE IF s1.rc THEN call("tcache_get", <<s1, t, tc_idx>>)
      ELSE
        LET s2 == call("malloc_largebin", <<s1, nb, idx>>)
        IN  IF s2.done THEN s2
            ELSE
              LET s3 == call("binmap_scan", <<s2, nb, idx2block(idx + 1),
                                    s2.av.binmap[idx2block(idx + 1)],
                                    idx2bit(idx + 1), bin_at(idx + 1)>>)
                  victim == top(s3)
                  size == chunksize(s3, victim)
              IN  IF s3.done THEN s3
                  ELSE IF size > s3.av.system_mem
                    THEN malloc_printerr(s3, "malloc(): corrupted top size")
                  ELSE IF size >= nb + MINSIZE
                    THEN
                      LET remainder == chunk_at_offset(victim, nb)
                          s4 == set_top(s3, remainder)
                          s5 == set_head(s4, victim, nb + PREV_INUSE)
                          s6 == set_head(s5, remainder, (size - nb) + PREV_INUSE)
                      IN  Return(s6, chunk2mem(victim))
                  ELSE IF s3.av.have_fastchunks
                    THEN malloc_search(call("malloc_consolidate", <<s3>>), t, nb, bin_index(nb))
                  ELSE call("sysmalloc", <<s3, t, nb>>)

_int_malloc(s, t, bytes) ==
  LET nb == request2size(bytes)
  IN  IF ~checked_request2size(bytes) THEN Return(set_errno(s, ENOMEM), 0)
      ELSE
        LET s1 == call("malloc_fast", <<s, t, nb>>)
        IN  IF s1.done THEN s1
            ELSE
              LET s2 == call("malloc_small", <<s1, t, nb>>)
              \* s.scanned notes the request and the fast bins as the scan of the
              \* unsorted list starts: flag0 and fast0 as they were before the
              \* small bin was tried, fast as the scan finds them
              IN  IF s2.done THEN s2
                  ELSE call("malloc_search",
                            <<[s2 EXCEPT !.rc = FALSE, !.tuc = 0,
                                         !.scanned = <<[nb |-> nb,
                                                        flag0 |-> s1.av.have_fastchunks,
                                                        fast0 |-> s1.av.fastbinsY,
                                                        fast |-> s2.av.fastbinsY]>>],
                              t, nb, bin_index(nb)>>)

(***************************************************************************)
(* tcache_init and the public wrappers                                     *)
(***************************************************************************)
\* memset (m, 0, n)
memset0(s, m, n) ==
  [s EXCEPT !.mem = [x \in {a \in DOMAIN @ : a < m \/ a >= m + n} |-> @[x]]]

\* memcpy that copies nothing
memcpy_none(s, dst, src, n) == s

\* memcpy (dst, src, n), n a multiple of the word size; the words of the
\* source that are not in mem are zero
memcpy(s, dst, src, n) ==
  LET from == {a \in DOMAIN s.mem : a >= src /\ a < src + n}
      keep == {a \in DOMAIN s.mem : a < dst \/ a >= dst + n}
  IN  [s EXCEPT !.mem = [x \in keep \cup {dst + (a - src) : a \in from} |->
                           IF x \in keep THEN s.mem[x] ELSE s.mem[src + (x - dst)]]]

\* the call of an engine routine from a wrapper: clear the scratch fields
Call(s) == [s EXCEPT !.ret = 0, !.done = FALSE, !.rc = FALSE, !.tuc = 0, !.picked = << >>]

tcache_init(s, t) ==
  IF s.tcache[t].shutting_down THEN s
  ELSE
    LET s0 == call("_int_malloc", <<Call(arena_get(s)), t, sizeof_tcache_perthread_struct>>)
        s1 == retry_and_unlock(s0)
        victim == s1.ret
    IN  IF s1.err # "" THEN s1
        ELSE IF victim # 0
          THEN Call([memset0(s1, victim, sizeof_tcache_perthread_struct)
                      EXCEPT !.tcache[t].ptr = victim,
                             !.tcache[t].counts = [i \in 0..(TCACHE_MAX_BINS - 1) |-> 0],
                             !.tcache[t].entries = [i \in 0..(TCACHE_MAX_BINS - 1) |-> 0]])
          ELSE Call(s1)

MAYBE_INIT_TCACHE(s, t) == IF s.tcache[t].ptr = 0 THEN call("tcache_init", <<s, t>>) ELSE s

\* the entries of tcache_tmp are unlinked and released one by one, bucket by
\* bucket
RECURSIVE tcache_shutdown_loop(_, _, _)
tcache_shutdown_loop(s, t, fuel) ==
  LET used == {i \in 0..(TCACHE_MAX_BINS - 1) : s.tcache[t].entries[i] # 0}
  IN  IF used = {} \/ fuel = 0 \/ s.err # "" THEN s
      ELSE
        LET i == CHOOSE j \in used : \A k \in used : j <= k
            e == s.tcache[t].entries[i]
            s1 == [s EXCEPT !.tcache[t].entries[i] = Rd(s, e)]
        IN  tcache_shutdown_loop(call("__libc_free", <<s1, t, e>>), t, fuel - 1)

\* the tcache is switched off and its chunks are forgotten
tcache_thread_shutdown_leak(s, t) ==
  IF s.tcache[t].ptr = 0 THEN s
  ELSE [s EXCEPT !.tcache[t].ptr = 0, !.tcache[t].shutting_down = TRUE,
                 !.tcache[t].entries = [i \in 0..(TCACHE_MAX_BINS - 1) |-> 0]]

\* s.tcache[t].entries stands for the entries of tcache_tmp while the loop
\* runs; the counts are left as they are
tcache_thread_shutdown(s, t) ==
  LET tcache_tmp == s.tcache[t].ptr
  IN  IF tcache_tmp = 0 THEN s
      ELSE
        LET s1 == [s EXCEPT !.tcache[t].ptr = 0, !.tcache[t].shutting_down = TRUE]
            s2 == tcache_shutdown_loop(s1, t, MaxLive + 2)
        IN  IF s2.err # "" THEN s2 ELSE call("__libc_free", <<s2, t, tcache_tmp>>)

__libc_malloc(s, t, bytes) ==
  LET tbytes == request2size(bytes)
      tc_idx == csize2tidx(tbytes)
  IN  IF ~checked_request2size(bytes) THEN Return(set_errno(s, ENOMEM), 0)
      ELSE
        LET s1 == MAYBE_INIT_TCACHE(s, t)
        IN  IF s1.err # "" THEN s1
            ELSE IF tc_idx < s1.mp.tcache_bins /\ s1.tcache[t].ptr # 0
                    /\ s1.tcache[t].counts[tc_idx] > 0
              THEN call("tcache_get", <<s1, t, tc_idx>>)
            ELSE retry_and_unlock(call("_int_malloc", <<Call(arena_get(s1)), t, bytes>>))

\* free (m) that adjusts the thresholds whether or not they were set by hand
__libc_free_unpinned(s, t, m) ==
  LET p == mem2chunk(m)
  IN  IF m = 0 THEN s
      ELSE IF chunk_is_mmapped(s, p)
        THEN
          LET adjust == /\ chunksize_nomask(s, p) > s.mp.mmap_threshold
                        /\ chunksize_nomask(s, p) <= DEFAULT_MMAP_THRESHOLD_MAX
              s1 == IF adjust
                      THEN [s EXCEPT !.mp.mmap_threshold = chunksize(s, p),
                                     !.mp.trim_threshold = 2 * chunksize(s, p)]
                      ELSE s
          IN  call("munmap_chunk", <<s1, p>>)
      ELSE
        LET s1 == MAYBE_INIT_TCACHE(s, t)
        IN  IF s1.err # "" THEN s1 ELSE call("_int_free", <<s1, t, p, FALSE>>)

__libc_free(s, t, m) ==
  LET p == mem2chunk(m)
  IN  IF m = 0 THEN s
      ELSE IF chunk_is_mmapped(s, p)
        THEN
          LET adjust == /\ s.mp.no_dyn_threshold = 0
                        /\ chunksize_nomask(s, p) > s.mp.mmap_threshold
                        /\ chunksize_nomask(s, p) <= DEFAULT_MMAP_THRESHOLD_MAX
              s1 == IF adjust
                      THEN [s EXCEPT !.mp.mmap_threshold = chunksize(s, p),
                                     !.mp.trim_threshold = 2 * chunksize(s, p)]
                      ELSE s
          IN  call("munmap_chunk", <<s1, p>>)
      ELSE
        LET s1 == MAYBE_INIT_TCACHE(s, t)
        IN  IF s1.err # "" THEN s1 ELSE call("_int_free", <<s1, t, p, FALSE>>)

(***************************************************************************)
(* calloc                                                                  *)
(***************************************************************************)
\* __builtin_mul_overflow (n, elem_size, &bytes), bytes a ptrdiff_t: a factor
\* above PTRDIFF_MAX reads as a negative value; the products of the other
\* values of the model are in range
mul_overflow(n, elem_size) == (n < 0 /\ elem_size # 0) \/ (elem_size < 0 /\ n # 0)

\* __libc_calloc that takes all memory above the old top for newly obtained
__libc_calloc_fresh(s, t, n, elem_size) ==
  LET sz == n * elem_size
      s0 == MAYBE_INIT_TCACHE(s, t)
      oldtop == top(s0)
      oldtopsize == chunksize(s0, oldtop)
      s1 == call("_int_malloc", <<Call(s0), t, sz>>)
      m == s1.ret
      p == mem2chunk(m)
      csz == IF p = oldtop /\ chunksize(s1, p) > oldtopsize
               THEN oldtopsize ELSE chunksize(s1, p)
  IN  IF s0.err # "" THEN s0
      ELSE IF s1.err # "" \/ m = 0 THEN s1
      ELSE IF chunk_is_mmapped(s1, p) THEN s1
      ELSE Return(memset0(s1, m, csz - SIZE_SZ), m)

__libc_calloc(s, t, n, elem_size) ==
  LET sz == n * elem_size
      s0 == MAYBE_INIT_TCACHE(s, t)
      oldtop == top(s0)
      fresh == s0.mp.sbrk_base + s0.av.max_system_mem - oldtop
      oldtopsize == Max(chunksize(s0, oldtop), fresh)
  IN  IF mul_overflow(n, elem_size) THEN Return(set_errno(s, ENOMEM), 0)
      ELSE IF s0.err # "" THEN s0
      ELSE
        LET s1 == retry_and_unlock(call("_int_malloc", <<Call(arena_get(s0)), t, sz>>))
            m == s1.ret
            p == mem2chunk(m)
            csz == IF p = oldtop /\ chunksize(s1, p) > oldtopsize
                     THEN oldtopsize ELSE chunksize(s1, p)
        IN  IF s1.err # "" \/ m = 0 THEN s1
            ELSE IF chunk_is_mmapped(s1, p) THEN s1
            ELSE IF (csz - SIZE_SZ) \div SIZE_SZ < 3
              THEN malloc_printerr(s1, "assertion failed: nclears >= 3")
            ELSE Return(memset0(s1, m, csz - SIZE_SZ), m)

(***************************************************************************)
(* realloc                                                                 *)
(***************************************************************************)
\* realloc_split that reports failure and leaves the chunk as it is
realloc_split_null(s, t, newp, newsize, nb) == Return(s, 0)

\* free the extra space of the old or extended chunk newp of size newsize
realloc_split(s, t, newp, newsize, nb) ==
  LET remainder_size == newsize - nb
      remainder == chunk_at_offset(newp, nb)
  IN  IF newsize < nb THEN malloc_printerr(s, "assertion failed: newsize >= nb")
      ELSE IF remainder_size < MINSIZE
        THEN Return(set_inuse_bit_at_offset(set_head_size(s, newp, newsize), newp, newsize),
                    chunk2mem(newp))
      ELSE
        LET s1 == set_head_size(s, newp, nb)
            s2 == set_head(s1, remainder, remainder_size + PREV_INUSE)
            s3 == set_inuse_bit_at_offset(s2, remainder, remainder_size)
            s4 == call("_int_free", <<s3, t, remainder, TRUE>>)
        IN  IF s4.err # "" THEN s4 ELSE Return(s4, chunk2mem(newp))

\* _int_realloc that releases the old chunk and reports failure
_int_realloc_drop(s, t, oldp, oldsize, nb) == Return(call("_int_free", <<s, t, oldp, TRUE>>), 0)

_int_realloc(s, t, oldp, oldsize, nb) ==
  LET next == chunk_at_offset(oldp, oldsize)
      nextsize == chunksize(s, next)
  IN  IF chunksize_nomask(s, oldp) <= 2 * SIZE_SZ \/ oldsize >= s.av.system_mem
        THEN malloc_printerr(s, "realloc(): invalid old size")
      ELSE IF chunk_is_mmapped(s, oldp)
        THEN malloc_printerr(s, "assertion failed: !chunk_is_mmapped (oldp)")
      ELSE IF chunksize_nomask(s, next) <= 2 * SIZE_SZ \/ nextsize >= s.av.system_mem
        THEN malloc_printerr(s, "realloc(): invalid next size")
      ELSE IF oldsize >= nb
        THEN call("realloc_split", <<s, t, oldp, oldsize, nb>>)
      ELSE IF next = top(s) /\ oldsize + nextsize >= nb + MINSIZE
        THEN
          LET s1 == set_head_size(s, oldp, nb)
              s2 == set_top(s1, chunk_at_offset(oldp, nb))
          IN  Return(set_head(s2, top(s2), (oldsize + nextsize - nb) + PREV_INUSE),
                     chunk2mem(oldp))
      ELSE IF next # top(s) /\ ~inuse(s, next) /\ oldsize + nextsize >= nb
        THEN
          LET s1 == call("unlink_chunk", <<s, next>>)
          IN  IF s1.err # "" THEN s1
              ELSE call("realloc_split", <<s1, t, oldp, oldsize + nextsize, nb>>)
      ELSE
        LET s1 == call("_int_malloc", <<Call(s), t, nb - MALLOC_ALIGN_MASK>>)
            newmem == s1.ret
            newp == mem2chunk(newmem)
        IN  IF s1.err # "" THEN s1
            ELSE IF newmem = 0 THEN Return(Call(s1), 0)
            ELSE IF newp = next
              THEN call("realloc_split", <<Call(s1), t, oldp, chunksize(s1, newp) + oldsize, nb>>)
            ELSE
              LET s2 == memcpy(Call(s1), newmem, chunk2mem(oldp), oldsize - SIZE_SZ)
                  s3 == call("_int_free", <<s2, t, oldp, TRUE>>)
              IN  IF s3.err # "" THEN s3 ELSE Return(s3, newmem)

__libc_realloc(s, t, oldmem, bytes) ==
  LET oldp == mem2chunk(oldmem)
      oldsize == chunksize(s, oldp)
      nb == request2size(bytes)
  IN  IF bytes = 0 /\ oldmem # 0 THEN Return(call("__libc_free", <<s, t, oldmem>>), 0)
      ELSE IF oldmem = 0 THEN call("__libc_malloc", <<s, t, bytes>>)
      ELSE
        LET s0 == IF chunk_is_mmapped(s, oldp) THEN s ELSE MAYBE_INIT_TCACHE(s, t)
        IN  IF s0.err # "" THEN s0
            ELSE IF UGT(oldp, -oldsize) \/ ~aligned_OK(oldp)
              THEN malloc_printerr(s0, "realloc(): invalid pointer")
            ELSE IF ~checked_request2size(bytes) THEN Return(set_errno(s0, ENOMEM), 0)
            ELSE IF chunk_is_mmapped(s0, oldp)
              THEN IF oldsize - SIZE_SZ >= nb THEN Return(s0, oldmem)
                   ELSE
                     LET s1 == call("__libc_malloc", <<s0, t, bytes>>)
                         newmem == s1.ret
                     IN  IF s1.err # "" \/ newmem = 0 THEN s1
                         ELSE Return(call("munmap_chunk", <<memcpy(s1, newmem, oldmem,
                                                         oldsize - 2 * SIZE_SZ), oldp>>),
                                     newmem)
            ELSE
              LET sl == call("_int_realloc", <<Call(lock_mutex(s0)), t, oldp, oldsize, nb>>)
                  s1 == IF sl.err # "" THEN sl ELSE unlock_mutex(sl)
              IN  IF s1.err # "" \/ s1.ret # 0 THEN s1
                  ELSE
                    LET s2 == call("__libc_malloc", <<Call(s1), t, bytes>>)
                        newp == s2.ret
                    IN  IF s2.err # "" \/ newp = 0 THEN s2
                        ELSE
                          LET s3 == call("_int_free", <<memcpy(s2, newp, oldmem, oldsize - SIZE_SZ),
                                              t, oldp, FALSE>>)
                          IN  IF s3.err # "" THEN s3 ELSE Return(s3, newp)

(***************************************************************************)
(* memalign                                                                *)
(***************************************************************************)
\* memalign_tail that releases the spare room as a public entry would
memalign_tail_unlocked(s, t, p, nb) ==
  LET size == chunksize(s, p)
      remainder == chunk_at_offset(p, nb)
  IN  IF ~chunk_is_mmapped(s, p) /\ size > nb + MINSIZE
        THEN
          LET s1 == set_head(s, remainder, (size - nb) + PREV_INUSE)
              s2 == set_head_size(s1, p, nb)
              s3 == call("_int_free", <<s2, t, remainder, FALSE>>)
          IN  IF s3.err # "" THEN s3 ELSE Return(s3, chunk2mem(p))
        ELSE Return(s, chunk2mem(p))

\* give back the spare room at the end of the in-use chunk p
memalign_tail(s, t, p, nb) ==
  LET size == chunksize(s, p)
      remainder == chunk_at_offset(p, nb)
  IN  IF ~chunk_is_mmapped(s, p) /\ size > nb + MINSIZE
        THEN
          LET s1 == set_head(s, remainder, (size - nb) + PREV_INUSE)
              s2 == set_head_size(s1, p, nb)
              s3 == call("_int_free", <<s2, t, remainder, TRUE>>)
          IN  IF s3.err # "" THEN s3 ELSE Return(s3, chunk2mem(p))
        ELSE Return(s, chunk2mem(p))

\* _int_memalign that allocates without regard to the alignment
_int_memalign_plain(s, t, alignment, bytes) == call("_int_malloc", <<Call(s), t, bytes>>)

_int_memalign(s, t, alignment, bytes) ==
  LET nb == request2size(bytes)
  IN  IF ~checked_request2size(bytes) THEN Return(set_errno(s, ENOMEM), 0)
      ELSE
        LET s1 == call("_int_malloc", <<Call(s), t, nb + alignment + MINSIZE>>)
            m == s1.ret
            p == mem2chunk(m)
        IN  IF s1.err # "" THEN s1
            ELSE IF m = 0 THEN Return(Call(s1), 0)
            ELSE IF m % alignment # 0
              THEN
                LET brk0 == mem2chunk(ALIGN_DOWN(m + alignment - 1, alignment))
                    brk1 == IF brk0 - p < MINSIZE THEN brk0 + alignment ELSE brk0
                    newp == brk1
                    leadsize == brk1 - p
                    newsize == chunksize(s1, p) - leadsize
                IN  IF chunk_is_mmapped(s1, p)
                      THEN Return(set_head(set_prev_size(Call(s1), newp,
                                                         prev_size(s1, p) + leadsize),
                                           newp, newsize + IS_MMAPPED),
                                  chunk2mem(newp))
                      ELSE
                        LET s2 == set_head(Call(s1), newp, newsize + PREV_INUSE)
                            s3 == set_inuse_bit_at_offset(s2, newp, newsize)
                            s4 == set_head_size(s3, p, leadsize)
                            s5 == call("_int_free", <<s4, t, p, TRUE>>)
                        IN  IF s5.err # "" THEN s5
                            ELSE IF ~(newsize >= nb /\ chunk2mem(newp) % alignment = 0)
                              THEN malloc_printerr(s5, "assertion failed: _int_memalign")
                            ELSE call("memalign_tail", <<s5, t, newp, nb>>)
            ELSE call("memalign_tail", <<Call(s1), t, p, nb>>)

RECURSIVE memalign_round(_, _)
\* while (a < alignment) a <<= 1
memalign_round(a, alignment) == IF a < alignment THEN memalign_round(2 * a, alignment) ELSE a

_mid_memalign(s, t, alignment0, bytes) ==
  LET a1 == IF ULT(alignment0, MINSIZE) THEN MINSIZE ELSE alignment0
      alignment == IF powerof2(a1) THEN a1 ELSE memalign_round(MALLOC_ALIGNMENT * 2, a1)
  IN  IF ULE(alignment0, MALLOC_ALIGNMENT) THEN call("__libc_malloc", <<s, t, bytes>>)
      \* alignment > SIZE_MAX / 2 + 1
      ELSE IF a1 < 0 THEN Return(set_errno(s, EINVAL), 0)
      ELSE retry_and_unlock(call("_int_memalign", <<Call(arena_get(s)), t, alignment, bytes>>))

(***************************************************************************)
(* pwrite64 (POSIX version): seek, write, seek back.  f is the open file   *)
(* description of fd with the errno of the caller; log lists the results   *)
(* of the system calls made                                                *)
(***************************************************************************)
SEEK_SET == 0
SEEK_CUR == 1
EBADF == 9

\* lseek64 (fd, offset, whence); refused is the system's refusal
__libc_lseek64(f, offset, whence, refused) ==
  LET to == IF whence = SEEK_CUR THEN f.pos + offset ELSE offset
      r == IF refused THEN [f EXCEPT !.ret = -1, !.errno = EBADF]
           ELSE IF to < 0 THEN [f EXCEPT !.ret = -1, !.errno = EINVAL]
           ELSE [f EXCEPT !.pos = to, !.ret = to]
  IN  [r EXCEPT !.log = Append(@, [call |-> "lseek", ret |-> r.ret])]

\* write (fd, buf, nbyte); wrote is what the system makes of it: -1 or the
\* number of bytes it takes
__libc_write(f, buf, nbyte, wrote) ==
  LET r == IF wrote < 0 THEN [f EXCEPT !.ret = -1, !.errno = EBADF]
           ELSE [f EXCEPT !.data = [x \in DOMAIN @ |->
                                      IF x >= f.pos /\ x < f.pos + wrote
                                        THEN buf[x - f.pos + 1] ELSE @[x]],
                          !.pos = @ + wrote,
                          !.ret = wrote]
  IN  [r EXCEPT !.log = Append(@, [call |-> "write", ret |-> r.ret])]

\* __libc_pwrite64 that leaves the file pointer where the write left it
__libc_pwrite64_stay(f, buf, nbyte, offset, sys) ==
  LET f1 == __libc_lseek64(f, 0, SEEK_CUR, sys.seek1)
      f2 == __libc_lseek64(f1, offset, SEEK_SET, sys.seek2)
      f3 == __libc_write(f2, buf, nbyte, sys.wrote)
      f4 == __libc_lseek64(f3, 0, SEEK_CUR, sys.seek3)
  IN  IF f1.ret = -1 THEN f1
      ELSE IF f2.ret = -1 THEN f2
      ELSE IF f4.ret = -1 THEN f4
      ELSE [f4 EXCEPT !.errno = f3.errno, !.ret = f3.ret]

__libc_pwrite64(f, buf, nbyte, offset, sys) ==
  LET f1 == __libc_lseek64(f, 0, SEEK_CUR, sys.seek1)
      old_offset == f1.ret
      f2 == __libc_lseek64(f1, offset, SEEK_SET, sys.seek2)
      f3 == __libc_write(f2, buf, nbyte, sys.wrote)
      result == f3.ret
      save_errno == f3.errno
      f4 == __libc_lseek64(f3, old_offset, SEEK_SET, sys.seek3)
  IN  IF old_offset = -1 THEN [f1 EXCEPT !.ret = -1]
      ELSE IF f2.ret = -1 THEN [f2 EXCEPT !.ret = -1]
      ELSE IF f4.ret = -1
        THEN IF result = -1 THEN [f4 EXCEPT !.errno = save_errno, !.ret = -1]
             ELSE [f4 EXCEPT !.ret = -1]
      ELSE [f4 EXCEPT !.errno = save_errno, !.ret = result]

\* x & -(pagesize - 1): the mask is ~(pagesize - 2), every bit but bits 1 to
\* 11, so bit 0 of x stays
and_minus_psm1(x) == x - ((x % pagesize) - (x % 2))

\* __builtin_add_overflow (bytes, pagesize - 1, &rounded_bytes) of size_t
pvalloc_overflow(bytes) == bytes < 0 /\ bytes + (pagesize - 1) >= 0

\* the size __libc_pvalloc passes to _mid_memalign
rounded_bytes(bytes) == and_minus_psm1(bytes + (pagesize - 1))

__libc_pvalloc(s, t, bytes) ==
  IF pvalloc_overflow(bytes) THEN Return(set_errno(s, ENOMEM), 0)
  ELSE call("_mid_memalign", <<s, t, pagesize, rounded_bytes(bytes)>>)

(***************************************************************************)
(* malloc_trim, malloc_usable_size, mallopt                                *)
(***************************************************************************)
M_MXFAST == 1
M_TRIM_THRESHOLD == -1
M_TOP_PAD == -2
M_MMAP_THRESHOLD == -3
M_MMAP_MAX == -4
HEAP_MAX_SIZE == 2 * DEFAULT_MMAP_THRESHOLD_MAX

\* __madvise (addr, len, MADV_DONTNEED): the pages read as zero afterwards
madvise(s, addr, len) == memset0(s, addr, len)

RECURSIVE mtrim_chunks(_, _, _)
\* for (p = last (bin); p != bin; p = p->bk); s.ret accumulates result
mtrim_chunks(s, bin, p) ==
  IF p = bin \/ s.err # "" THEN s
  ELSE
    LET size == chunksize(s, p)
        psm1 == pagesize - 1
        paligned_mem == ALIGN_DOWN(p + sizeof_malloc_chunk + psm1, pagesize)
        size2 == size - (paligned_mem - p)
    IN  IF size > psm1 + sizeof_malloc_chunk
          THEN IF ~(chunk2mem(p) + 4 * SIZE_SZ <= paligned_mem /\ p + size > paligned_mem)
                 THEN malloc_printerr(s, "assertion failed: mtrim")
               ELSE IF size2 > psm1
                 THEN mtrim_chunks([madvise(s, paligned_mem, ALIGN_DOWN(size2, pagesize))
                                      EXCEPT !.ret = 1], bin, Bk(s, p))
               ELSE mtrim_chunks(s, bin, Bk(s, p))
          ELSE mtrim_chunks(s, bin, Bk(s, p))

RECURSIVE mtrim_bins(_, _)
\* for (int i = 1; i < NBINS; ++i) if (i == 1 || i >= psindex)
mtrim_bins(s, i) ==
  IF i >= NBINS \/ s.err # "" THEN s
  ELSE IF i = 1 \/ i >= bin_index(pagesize)
    THEN mtrim_bins(mtrim_chunks(s, bin_at(i), last(s, bin_at(i))), i + 1)
  ELSE mtrim_bins(s, bin_index(pagesize))

mtrim(s, pad) ==
  LET s1 == mtrim_bins(Call(call("malloc_consolidate", <<s>>)), 1)
      result == s1.ret
      s2 == call("systrim", <<Call(s1), pad>>)
  IN  IF s1.err # "" THEN s1
      ELSE IF s2.err # "" THEN s2
      ELSE Return(s2, IF result = 1 \/ s2.ret = 1 THEN 1 ELSE 0)

__malloc_trim(s, pad) ==
  LET r == call("mtrim", <<lock_mutex(s), pad>>)
  IN  IF r.err # "" THEN r ELSE unlock_mutex(r)

musable(s, m) ==
  LET p == mem2chunk(m)
  IN  IF m = 0 THEN 0
      ELSE IF chunk_is_mmapped(s, p) THEN chunksize(s, p) - 2 * SIZE_SZ
      ELSE IF inuse(s, p) THEN chunksize(s, p) - SIZE_SZ
      ELSE 0

do_set_mxfast(s, value) ==
  IF ULE(value, MAX_FAST_SIZE) THEN Return(set_max_fast(s, value), 1) ELSE Return(s, 0)

do_set_trim_threshold(s, value) ==
  Return([s EXCEPT !.mp.trim_threshold = value, !.mp.no_dyn_threshold = 1], 1)

do_set_top_pad(s, value) ==
  Return([s EXCEPT !.mp.top_pad = value, !.mp.no_dyn_threshold = 1], 1)

do_set_mmap_threshold(s, value) ==
  IF ULE(value, HEAP_MAX_SIZE \div 2)
    THEN Return([s EXCEPT !.mp.mmap_threshold = value, !.mp.no_dyn_threshold = 1], 1)
    ELSE Return(s, 0)

do_set_mmaps_max(s, value) ==
  Return([s EXCEPT !.mp.n_mmaps_max = value, !.mp.no_dyn_threshold = 1], 1)

do_set_tcache_unsorted_limit(s, value) ==
  Return([s EXCEPT !.mp.tcache_unsorted_limit = value], 1)

do_set_tcache_count(s, value) ==
  IF ULE(value, MAX_TCACHE_COUNT)
    THEN Return([s EXCEPT !.mp.tcache_count = value], 1)
    ELSE Return(s, 0)

__libc_mallopt(s, param_number, value) ==
  LET s1 == Call(call("malloc_consolidate", <<lock_mutex(s)>>))
  IN  IF s1.err # "" THEN s1
      ELSE unlock_mutex(
        IF param_number = M_MXFAST THEN do_set_mxfast(s1, value)
        ELSE IF param_number = M_TRIM_THRESHOLD THEN do_set_trim_threshold(s1, value)
        ELSE IF param_number = M_TOP_PAD THEN do_set_top_pad(s1, value)
        ELSE IF param_number = M_MMAP_THRESHOLD THEN do_set_mmap_threshold(s1, value)
        ELSE IF param_number = M_MMAP_MAX THEN do_set_mmaps_max(s1, value)
        ELSE Return(s1, 1))

(***************************************************************************)
(* Observed calls: the caller fills a region before it hands it to realloc *)
(* and keeps a record of what it passed and what came back.  An observed   *)
(* call yields the state the call returned in and the caller's record of   *)
(* it; l is the caller's record of the regions it holds.                   *)
(***************************************************************************)
\* the words of a region of usable bytes the caller writes: the first three
\* and the last two
SampleWords(usable) ==
  LET words == usable \div SIZE_SZ
  IN  {k \in {0, 1, 2, words - 2, words - 1} : k >= 0 /\ k < words}

\* the value the caller writes to word k of its region
Stamp(k) == 7000001 + k

\* the caller writes its region m
Fill(s, m) ==
  LET at == {m + k * SIZE_SZ : k \in SampleWords(musable(s, m))}
  IN  [s EXCEPT !.mem = [x \in (DOMAIN @) \cup at |->
                           IF x \in at THEN Stamp((x - m) \div SIZE_SZ) ELSE @[x]]]

\* where the physical successor of the in-use arena chunk of m is held
successor_place(s, l, m) ==
  LET p == mem2chunk(m)
      next == chunk_at_offset(p, chunksize(s, p))
  IN  IF chunk_is_mmapped(s, p) THEN "none"
      ELSE IF next = top(s) THEN "top"
      ELSE IF chunksize(s, next) < MINSIZE THEN "fence"
      ELSE IF chunk2mem(next) \in DOMAIN l
              \/ \E u \in Threads : s.tcache[u].ptr = chunk2mem(next) THEN "inuse"
      ELSE IF ~prev_inuse(s, chunk_at_offset(next, chunksize(s, next))) THEN "binned"
      ELSE "cached"

\* the bytes of the chunk of m and of its physical successor together
combined_size(s, m) ==
  LET p == mem2chunk(m)
      next == chunk_at_offset(p, chunksize(s, p))
  IN  chunksize(s, p) + chunksize(s, next)

RECURSIVE bk_sizes(_, _, _)
\* the sizes of the chunks of the unsorted list from p along bk, the order
\* in which an allocation takes them off
bk_sizes(s, p, fuel) ==
  IF p = unsorted_chunks \/ fuel = 0 THEN << >>
  ELSE <<chunksize(s, p)>> \o bk_sizes(s, Bk(s, p), fuel - 1)

\* what thread t finds before a call: the limits of the page-mapping, and
\* what an allocation must leave alone when it fails: the top chunk, the
\* counters of the memory obtained from the system, the break and the
\* mappings, and the chunk sizes of the regions that callers hold (the P bit
\* of a header tells of the neighbour)
ArenaBefore(s, l, t) ==
  [unsorted |-> bk_sizes(s, Bk(s, unsorted_chunks), MaxLive + 2),
   binmap |-> s.av.binmap,
   top |-> top(s), size |-> chunksize(s, top(s)),
   system_mem |-> s.av.system_mem, max_system_mem |-> s.av.max_system_mem,
   brk |-> s.brk, maps |-> s.maps, n_mmaps |-> s.mp.n_mmaps,
   n_mmaps_max |-> s.mp.n_mmaps_max, mmap_threshold |-> s.mp.mmap_threshold,
   regions |-> [m \in DOMAIN l |-> chunksize(s, mem2chunk(m))],
   tinit |-> s.tcache[t].ptr # 0]

\* what the call that returned in s did with the mutex of the arena
Locks(s) == [held |-> s.held, relock |-> s.relock, bare |-> s.bare, n |-> s.locks]

\* what the caller knows of an allocation of n bytes through the entry op:
\* s0 is the state it was called in, s the state it returned in
AllocRecord(s0, l, s, op, t, n) ==
  [op |-> op, t |-> t, n |-> n, ret |-> s.ret, err |-> s.err,
   pre |-> ArenaBefore(s0, l, t), scanned |-> s.scanned,
   stash |-> s.stash, tuc |-> s.tuc, picked |-> s.picked, locks |-> Locks(s)]

observed_malloc(s, l, t, n) ==
  LET r == call("__libc_malloc", <<s, t, n>>)
  IN  [state |-> r, rec |-> AllocRecord(s, l, r, "malloc", t, n)]

observed_memalign(s, l, t, alignment, n) ==
  LET r == call("_mid_memalign", <<s, t, alignment, n>>)
  IN  [state |-> r,
       rec |-> [align |-> alignment] @@ AllocRecord(s, l, r, "memalign", t, n)]

\* passed is the size the aligned allocation was asked for, errno0 the errno
\* before the call
observed_pvalloc(s, l, t, n) ==
  LET r == call("__libc_pvalloc", <<s, t, n>>)
  IN  [state |-> r,
       rec |-> [passed |-> IF pvalloc_overflow(n) THEN 0 ELSE rounded_bytes(n),
                errno |-> r.errno]
               @@ AllocRecord(s, l, r, "pvalloc", t, n)]

observed_calloc(s, l, t, n, elem_size) ==
  LET r == call("__libc_calloc", <<s, t, n, elem_size>>)
  IN  [state |-> r, rec |-> AllocRecord(s, l, r, "calloc", t, n * elem_size)]

\* what the caller knows of a reallocation
ReallocRecord(s0, l, s, t, m, n) ==
  [op |-> "realloc", t |-> t, p |-> m, n |-> n,
   ret |-> s.ret, err |-> s.err, pre |-> ArenaBefore(s0, l, t),
   locks |-> Locks(s),
   old |-> musable(s0, m),
   size |-> chunksize(s0, mem2chunk(m)),
   mapped |-> chunk_is_mmapped(s0, mem2chunk(m)),
   next |-> successor_place(s0, l, m),
   room |-> IF chunk_is_mmapped(s0, mem2chunk(m)) THEN 0 ELSE combined_size(s0, m)]

\* the caller writes its region m and reallocates it
observed_realloc(s, l, t, m, n) ==
  LET s0 == Fill(s, m)
      r == call("__libc_realloc", <<s0, t, m, n>>)
  IN  [state |-> r, rec |-> ReallocRecord(s0, l, r, t, m, n)]

observed_realloc_usable(s, l, t, m) ==
  call("observed_realloc", <<s, l, t, m, musable(s, m)>>)

\* where the release of m by thread t has put its chunk: at the head of the
\* tcache bucket of t, at the head of a fast bin, or elsewhere in the arena
release_place(s, t, m) ==
  LET size == chunksize(s, mem2chunk(m))
  IN  IF size < MINSIZE THEN "arena"
      ELSE IF csize2tidx(size) < TCACHE_MAX_BINS /\ s.tcache[t].entries[csize2tidx(size)] = m
        THEN "tcache"
      ELSE IF fastbin_index(size) < NFASTBINS
              /\ s.av.fastbinsY[fastbin_index(size)] = mem2chunk(m)
        THEN "fast"
      ELSE "arena"

\* what the caller knows of a release that was called in s0 and returned in
\* s: where the chunk went, what the chunk and the break were before, and
\* how often the release called systrim, where the top chunk was, whether
\* the chunk was of a fast size and whether the tcache of t had room for it
FreeRecord(s0, s, t, m) ==
  [op |-> "free", t |-> t, p |-> m, err |-> s.err, locks |-> Locks(s),
   size |-> chunksize(s, mem2chunk(m)), place |-> release_place(s, t, m),
   csize |-> chunksize(s0, mem2chunk(m)),
   mapped |-> chunk_is_mmapped(s0, mem2chunk(m)),
   brk0 |-> s0.brk, systrims |-> s.systrims,
   top0 |-> top(s0),
   fastsize |-> ULE(chunksize(s0, mem2chunk(m)), get_max_fast(s0)),
   cacheable |-> LET tc_idx == csize2tidx(chunksize(s0, mem2chunk(m)))
                 IN  /\ s0.tcache[t].ptr # 0
                     /\ tc_idx >= 0 /\ tc_idx < s0.mp.tcache_bins
                     /\ s0.tcache[t].counts[tc_idx] < s0.mp.tcache_count]

observed_free(s, t, m) ==
  LET r == call("__libc_free", <<s, t, m>>)
  IN  [state |-> r, rec |-> FreeRecord(s, r, t, m)]

\* what the caller knows of a call of mallopt
MalloptRecord(s, param_number, value) ==
  [op |-> "mallopt", param |-> param_number, value |-> value,
   ret |-> s.ret, err |-> s.err, locks |-> Locks(s)]

\* what the caller knows of a call of malloc_trim
observed_trim(s, pad) ==
  LET r == call("__malloc_trim", <<s, pad>>)
  IN  [state |-> r,
       rec |-> [op |-> "trim", pad |-> pad, ret |-> r.ret, err |-> r.err,
                locks |-> Locks(r)]]

observed_mallopt(s, param_number, value) ==
  LET r == call("__libc_mallopt", <<s, param_number, value>>)
  IN  [state |-> r, rec |-> MalloptRecord(r, param_number, value)]

RECURSIVE bucket_entries(_, _, _)
\* the chunks of a tcache bucket, from entry e along next
bucket_entries(s, e, fuel) ==
  IF e = 0 \/ fuel = 0 THEN {}
  ELSE {mem2chunk(e)} \cup bucket_entries(s, Rd(s, e), fuel - 1)

\* what is known of a thread's exit: the tcache structure it had and the
\* chunks that lay in its buckets
ShutdownRecord(s0, s, t) ==
  [op |-> "shutdown", t |-> t, err |-> s.err, struct |-> s0.tcache[t].ptr,
   locks |-> Locks(s),
   cached |-> UNION {bucket_entries(s0, s0.tcache[t].entries[i], MaxLive + 2) :
                       i \in 0..(TCACHE_MAX_BINS - 1)}]

observed_shutdown(s, t) ==
  LET r == call("tcache_thread_shutdown", <<s, t>>)
  IN  [state |-> r, rec |-> ShutdownRecord(s, r, t)]

(***************************************************************************)
(* Threads step by step.  c holds the arena mutex (0: free, else the       *)
(* thread that holds it), the thread that took the latest step, the local  *)
(* variables of each thread between its steps, and what is known of the    *)
(* chunks that went through the fast bins:                                 *)
(*   infast     the chunks pushed and neither popped nor consolidated      *)
(*   unflagged  those of them pushed after have_fastchunks, which their    *)
(*              release had set, was cleared again                         *)
(*   lost       a chunk left a fast bin it was not on, or entered one it   *)
(*              was on                                                     *)
(* The tcache is switched off (tcache_count = 0) when threads are stepped, *)
(* so every release reaches the bins.                                      *)
(***************************************************************************)
\* a thread outside the unsorted loop of _int_malloc
NoDrain ==
  [pc |-> "idle", usable |-> FALSE, tcache_count |-> 0, limit |-> 0, count |-> 0,
   iters |-> 0, rc |-> FALSE, tuc |-> 0, taken |-> 0, stashed |-> 0, binned |-> 0]

IdleThread ==
  [pc |-> "idle", m |-> 0, n |-> 0, nb |-> 0, i |-> 0, a |-> 0, b |-> 0,
   ret |-> 0, stale |-> FALSE, retried |-> FALSE]

NoThreads ==
  [mutex |-> 0, actor |-> 0, th |-> [t \in Threads |-> IdleThread],
   infast |-> {}, unflagged |-> {}, lost |-> FALSE, swept |-> FALSE,
   contended |-> FALSE, drain |-> NoDrain, foreign |-> {}]

ChainFuel == MaxLive + 2

RECURSIVE fast_chain(_, _, _)
\* the chunks linked from p along fd
fast_chain(s, p, fuel) ==
  IF p = 0 \/ fuel = 0 THEN << >> ELSE <<p>> \o fast_chain(s, Fd(s, p), fuel - 1)

\* the chunks on the fast bins
fast_members(s) ==
  UNION {{fast_chain(s, s.av.fastbinsY[i], ChainFuel)[k] :
            k \in DOMAIN fast_chain(s, s.av.fastbinsY[i], ChainFuel)} :
         i \in 0..(NFASTBINS - 1)}

\* a compare-and-exchange that stores whatever the head is
exchange_blind(s, i, new, old) == [s EXCEPT !.av.fastbinsY[i] = new]

\* catomic_compare_and_exchange_val_acq/rel (fb, new, old) on the head of
\* fast bin i; the value it returns is the head before
catomic_compare_and_exchange_val(s, i, new, old) ==
  IF s.av.fastbinsY[i] = old THEN [s EXCEPT !.av.fastbinsY[i] = new] ELSE s

\* a store to have_fastchunks that does not happen
keep_have_fastchunks(s, v) == s

\* atomic_store_relaxed (&av->have_fastchunks, v)
store_have_fastchunks(s, v) == [s EXCEPT !.av.have_fastchunks = v]

\* thread L has set have_fastchunks and not yet pushed its chunk
InWindow(L) == L.pc \in {"f_read", "f_link", "f_cas"}

\* what a step of t yields: s0 the state before, s the state after, c the
\* threads after; a thread whose have_fastchunks the step cleared is stale
Outcome(s0, s, c, t) ==
  [state |-> s,
   cc |-> [c EXCEPT !.actor = t,
                    !.th = [u \in Threads |->
                              IF InWindow(@[u]) /\ s0.av.have_fastchunks
                                 /\ ~s.av.have_fastchunks
                                THEN [@[u] EXCEPT !.stale = TRUE] ELSE @[u]]]]

\* the same after a step that ran routines of the allocator under the mutex,
\* which may have consolidated the fast bins or pushed onto them
Resync(s0, s, c, t) ==
  IF s.err # "" THEN Outcome(s0, s, c, t)
  ELSE Outcome(s0, s,
               [c EXCEPT !.infast = (@ \ (fast_members(s0) \ fast_members(s)))
                                      \cup (fast_members(s) \ fast_members(s0)),
                         !.unflagged = @ \ (fast_members(s0) \ fast_members(s))],
               t)

\* free() without the lock
start_free_unlocked(s, c, t, m) ==
  Outcome(s, s, [c EXCEPT !.th[t] = [IdleThread EXCEPT !.pc = "f_body", !.m = m]], t)

\* __libc_free and _int_free up to the choice between the fast bins and the
\* coalescing branch, which takes the mutex (have_lock is 0)
start_free(s, c, t, m) ==
  LET p == mem2chunk(m)
      size == chunksize(s, p)
  IN  IF chunk_is_mmapped(s, p) THEN Outcome(s, call("__libc_free", <<s, t, m>>), c, t)
      ELSE IF UGT(p, -size) \/ ~aligned_OK(p)
        THEN Outcome(s, malloc_printerr(s, "free(): invalid pointer"), c, t)
      ELSE IF size < MINSIZE \/ ~aligned_OK(size)
        THEN Outcome(s, malloc_printerr(s, "free(): invalid size"), c, t)
      ELSE Outcome(s, s,
                   [c EXCEPT !.th[t] =
                      [IdleThread EXCEPT !.pc = IF ULE(size, get_max_fast(s))
                                                 THEN "f_flag" ELSE "f_lock",
                                         !.m = m]],
                   t)

\* the fast-bin branch of _int_free, a step at a time: set have_fastchunks,
\* read the head, link the chunk to it, compare and exchange
push_step(s, c, t) ==
  LET L == c.th[t]
      p == mem2chunk(L.m)
      size == chunksize(s, p)
      nxt == chunk_at_offset(p, size)
      head == s.av.fastbinsY[L.i]
  IN  CASE L.pc = "f_flag" ->
             IF chunksize_nomask(s, nxt) <= 2 * SIZE_SZ
                \/ chunksize(s, nxt) >= s.av.system_mem
               THEN Outcome(s, malloc_printerr(s, "free(): invalid next size (fast)"), c, t)
               ELSE Outcome(s, store_have_fastchunks(s, TRUE),
                            [c EXCEPT !.th[t].pc = "f_read",
                                      !.th[t].i = fastbin_index(size)], t)
        [] L.pc = "f_read" ->
             Outcome(s, s, [c EXCEPT !.th[t].a = head, !.th[t].pc = "f_link"], t)
        [] L.pc = "f_link" ->
             IF L.a = p
               THEN Outcome(s, malloc_printerr(s, "double free or corruption (fasttop)"), c, t)
               ELSE Outcome(s, set_fd(s, p, L.a), [c EXCEPT !.th[t].pc = "f_cas"], t)
        [] OTHER ->
             IF head = L.a
               THEN Outcome(s, catomic_compare_and_exchange_val(s, L.i, p, L.a),
                            [c EXCEPT !.th[t] = IdleThread,
                                      !.infast = @ \cup {p},
                                      !.unflagged = IF L.stale THEN @ \cup {p} ELSE @,
                                      !.lost = @ \/ p \in c.infast], t)
               ELSE Outcome(s, catomic_compare_and_exchange_val(s, L.i, p, L.a),
                            [c EXCEPT !.th[t].a = head,
                                      !.th[t].retried = TRUE,
                                      !.th[t].pc = "f_link",
                                      !.contended = TRUE], t)

\* the fast-bin stage of _int_malloc with REMOVE_FB, a step at a time: read
\* the head, read its fd, compare and exchange
pop_step(s, c, t) ==
  LET L == c.th[t]
      idx == fastbin_index(L.nb)
      head == s.av.fastbinsY[L.i]
  IN  CASE L.pc = "m_fast" ->
             IF ULE(L.nb, get_max_fast(s)) /\ s.av.fastbinsY[idx] # 0
               THEN Outcome(s, s, [c EXCEPT !.th[t].i = idx,
                                            !.th[t].a = s.av.fastbinsY[idx],
                                            !.th[t].pc = "pop_fd"], t)
               ELSE Outcome(s, s, [c EXCEPT !.th[t].pc = "m_bins"], t)
        [] L.pc = "pop_fd" ->
             Outcome(s, s, [c EXCEPT !.th[t].b = Fd(s, L.a), !.th[t].pc = "pop_cas"], t)
        [] OTHER ->
             LET s1 == catomic_compare_and_exchange_val(s, L.i, L.b, L.a)
             IN  IF head # L.a
                   THEN Outcome(s, s1, [c EXCEPT !.th[t].a = head,
                                                 !.th[t].retried = TRUE,
                                                 !.th[t].pc = IF head = 0 THEN "m_bins"
                                                              ELSE "pop_fd",
                                                 !.contended = TRUE], t)
                 ELSE IF fastbin_index(chunksize(s1, L.a)) # L.i
                   THEN Outcome(s, malloc_printerr(s1, "malloc(): memory corruption (fast)"), c, t)
                 ELSE Outcome(s, s1, [c EXCEPT !.th[t].ret = chunk2mem(L.a),
                                               !.th[t].pc = "m_unlock",
                                               !.infast = @ \ {L.a},
                                               !.unflagged = @ \ {L.a},
                                               !.lost = @ \/ L.a \notin c.infast], t)

\* malloc_consolidate, a step at a time: clear have_fastchunks, then for each
\* fast bin exchange its head for NULL and consolidate the chunks taken
sweep_step(s, c, t) ==
  LET L == c.th[t]
      p == s.av.fastbinsY[L.i]
      chain == fast_chain(s, p, ChainFuel)
      taken == {chain[k] : k \in DOMAIN chain}
      last_bin == L.i = NFASTBINS - 1
  IN  CASE L.pc = "c_clear" ->
             Outcome(s, store_have_fastchunks(s, FALSE),
                     [c EXCEPT !.th[t].i = 0, !.th[t].pc = "c_xchg", !.swept = TRUE], t)
        [] OTHER ->
             Outcome(s, consolidate_chain([s EXCEPT !.av.fastbinsY[L.i] = 0], L.i, p),
                     [c EXCEPT !.th[t].pc = IF last_bin THEN "m_search" ELSE "c_xchg",
                               !.th[t].i = IF last_bin THEN 0 ELSE L.i + 1,
                               !.infast = @ \ taken,
                               !.unflagged = @ \ taken,
                               !.lost = @ \/ ~(taken \subseteq c.infast)
                                          \/ Cardinality(taken) # Len(chain)], t)

\* what a thread does in one piece while it holds the mutex: tcache_init's
\* allocation, the bins stage of _int_malloc, the coalescing branch of
\* _int_free
locked_step(s, c, t) ==
  LET L == c.th[t]
      search == [Call(s) EXCEPT !.rc = FALSE, !.tuc = 0]
  IN  CASE L.pc = "t_body" ->
             Resync(s, call("tcache_init", <<Call(s), t>>),
                    [c EXCEPT !.th[t].pc = "t_unlock"], t)
        [] L.pc = "m_bins" ->
             IF in_smallbin_range(L.nb)
               THEN LET s2 == call("malloc_small", <<Call(s), t, L.nb>>)
                        s3 == IF s2.done \/ s2.err # "" THEN s2
                              ELSE call("malloc_search",
                                        <<[s2 EXCEPT !.rc = FALSE, !.tuc = 0], t, L.nb,
                                          bin_index(L.nb)>>)
                    IN  Resync(s, s3, [c EXCEPT !.th[t].ret = s3.ret,
                                                !.th[t].pc = "m_unlock"], t)
               ELSE Outcome(s, s, [c EXCEPT !.th[t].pc = IF s.av.have_fastchunks
                                                           THEN "c_clear" ELSE "m_search"], t)
        [] L.pc = "m_search" ->
             LET s3 == call("malloc_search", <<search, t, L.nb, bin_index(L.nb)>>)
             IN  Resync(s, s3, [c EXCEPT !.th[t].ret = s3.ret, !.th[t].pc = "m_unlock"], t)
        [] OTHER ->
             Resync(s, call("free_coalesce",
                            <<Call(s), mem2chunk(L.m), chunksize(s, mem2chunk(L.m))>>),
                    [c EXCEPT !.th[t].pc = "f_unlock"], t)

(***************************************************************************)
(* The unsorted loop of _int_malloc, an iteration at a time.  d holds the  *)
(* loop's variables: iters, return_cached (rc), tcache_unsorted_count      *)
(* (tuc), tcache->counts[tc_idx] (count), whether tcache_nb is set         *)
(* (usable), mp_.tcache_count and mp_.tcache_unsorted_limit as the call    *)
(* found them, and the numbers of chunks taken off the list, stashed in    *)
(* the tcache and sorted into bins.  kind says what the loop finds at the  *)
(* tail of the list: "none" (the list is empty), "fit" (a chunk of size    *)
(* nb), "split" (the last remainder, alone on the list, for a small        *)
(* request it can serve), "other" (any other chunk).  pc tells how the     *)
(* loop ended: "after" (on to the bin search or to the cached chunk),      *)
(* "exact", "split", "cached" (returned from within the loop).             *)
(***************************************************************************)
\* the loop without the test of iters
drain_step_endless(d, kind) ==
  IF kind = "none" THEN [d EXCEPT !.pc = "after"]
  ELSE IF kind = "split" THEN [d EXCEPT !.pc = "split"]
  ELSE IF kind = "fit"
    THEN IF d.usable /\ d.count < d.tcache_count
           THEN [d EXCEPT !.taken = @ + 1, !.stashed = @ + 1, !.count = @ + 1, !.rc = TRUE]
           ELSE [d EXCEPT !.taken = @ + 1, !.pc = "exact"]
  ELSE [d EXCEPT !.taken = @ + 1, !.binned = @ + 1, !.tuc = @ + 1, !.iters = @ + 1]

drain_step(d, kind) ==
  IF kind = "none" THEN [d EXCEPT !.pc = "after"]
  ELSE IF kind = "split" THEN [d EXCEPT !.pc = "split"]
  ELSE IF kind = "fit"
    THEN \* if (tcache_nb && tcache->counts[tc_idx] < mp_.tcache_count)
         \*   { tcache_put (victim, tc_idx); return_cached = 1; continue; }
         IF d.usable /\ d.count < d.tcache_count
           THEN [d EXCEPT !.taken = @ + 1, !.stashed = @ + 1, !.count = @ + 1, !.rc = TRUE]
           ELSE [d EXCEPT !.taken = @ + 1, !.pc = "exact"]
  ELSE
    LET d1 == [d EXCEPT !.taken = @ + 1, !.binned = @ + 1, !.tuc = @ + 1]
    IN  IF d1.rc /\ d1.limit > 0 /\ d1.tuc > d1.limit
          THEN [d1 EXCEPT !.pc = "cached", !.count = @ - 1]
        ELSE IF d1.iters + 1 >= MAX_ITERS
          THEN [d1 EXCEPT !.iters = @ + 1, !.pc = "after"]
        ELSE [d1 EXCEPT !.iters = @ + 1]

(***************************************************************************)
(* The call table.  A routine of the allocator reaches another one through *)
(* call, which names the callee and passes its arguments as a tuple; the  *)
(* callee is the definition of the same name.                              *)
(***************************************************************************)
call(f, a) ==
  CASE f = "InitWord" -> InitWord(a[1])
    [] f = "unlink_nextsize" -> unlink_nextsize(a[1], a[2], a[3])
    [] f = "unlink_chunk" -> unlink_chunk(a[1], a[2])
    [] f = "tcache_put" -> tcache_put(a[1], a[2], a[3], a[4])
    [] f = "tcache_get" -> tcache_get(a[1], a[2], a[3])
    [] f = "systrim" -> systrim(a[1], a[2])
    [] f = "munmap_chunk" -> munmap_chunk(a[1], a[2])
    [] f = "consolidate_chunk" -> consolidate_chunk(a[1], a[2])
    [] f = "malloc_consolidate" -> malloc_consolidate(a[1])
    [] f = "free_trim" -> free_trim(a[1], a[2])
    [] f = "free_coalesce" -> free_coalesce(a[1], a[2], a[3])
    [] f = "_int_free" -> _int_free(a[1], a[2], a[3], a[4])
    [] f = "sysmalloc_mmap" -> sysmalloc_mmap(a[1], a[2])
    [] f = "sysmalloc_fencepost" -> sysmalloc_fencepost(a[1], a[2], a[3], a[4])
    [] f = "sysmalloc_adjust" -> sysmalloc_adjust(a[1], a[2], a[3], a[4], a[5], a[6], a[7], a[8])
    [] f = "sysmalloc_morecore" -> sysmalloc_morecore(a[1], a[2], a[3], a[4], a[5], a[6])
    [] f = "sysmalloc_carve" -> sysmalloc_carve(a[1], a[2])
    [] f = "sysmalloc" -> sysmalloc(a[1], a[2], a[3])
    [] f = "malloc_fast" -> malloc_fast(a[1], a[2], a[3])
    [] f = "malloc_small" -> malloc_small(a[1], a[2], a[3])
    [] f = "split_to_unsorted" -> split_to_unsorted(a[1], a[2], a[3], a[4], a[5], a[6])
    [] f = "bin_insert" -> bin_insert(a[1], a[2], a[3])
    [] f = "unsorted_loop" -> unsorted_loop(a[1], a[2], a[3], a[4], a[5])
    [] f = "malloc_largebin" -> malloc_largebin(a[1], a[2], a[3])
    [] f = "binmap_scan" -> binmap_scan(a[1], a[2], a[3], a[4], a[5], a[6])
    [] f = "malloc_search" -> malloc_search(a[1], a[2], a[3], a[4])
    [] f = "_int_malloc" -> _int_malloc(a[1], a[2], a[3])
    [] f = "tcache_init" -> tcache_init(a[1], a[2])
    [] f = "__libc_malloc" -> __libc_malloc(a[1], a[2], a[3])
    [] f = "__libc_free" -> __libc_free(a[1], a[2], a[3])
    [] f = "realloc_split" -> realloc_split(a[1], a[2], a[3], a[4], a[5])
    [] f = "_int_realloc" -> _int_realloc(a[1], a[2], a[3], a[4], a[5])
    [] f = "memalign_tail" -> memalign_tail(a[1], a[2], a[3], a[4])
    [] f = "_int_memalign" -> _int_memalign(a[1], a[2], a[3], a[4])
    [] f = "mtrim" -> mtrim(a[1], a[2])
    [] f = "__libc_realloc" -> __libc_realloc(a[1], a[2], a[3], a[4])
    [] f = "_mid_memalign" -> _mid_memalign(a[1], a[2], a[3], a[4])
    [] f = "__libc_calloc" -> __libc_calloc(a[1], a[2], a[3], a[4])
    [] f = "__malloc_trim" -> __malloc_trim(a[1], a[2])
    [] f = "__libc_mallopt" -> __libc_mallopt(a[1], a[2], a[3])
    [] f = "Fill" -> Fill(a[1], a[2])
    [] f = "start_free" -> start_free(a[1], a[2], a[3], a[4])
    [] f = "push_step" -> push_step(a[1], a[2], a[3])
    [] f = "pop_step" -> pop_step(a[1], a[2], a[3])
    [] f = "sweep_step" -> sweep_step(a[1], a[2], a[3])
    [] f = "locked_step" -> locked_step(a[1], a[2], a[3])
    [] f = "__libc_pvalloc" -> __libc_pvalloc(a[1], a[2], a[3])
    [] f = "observed_pvalloc" -> observed_pvalloc(a[1], a[2], a[3], a[4])
    [] f = "observed_malloc" -> observed_malloc(a[1], a[2], a[3], a[4])
    [] f = "observed_memalign" -> observed_memalign(a[1], a[2], a[3], a[4], a[5])
    [] f = "observed_calloc" -> observed_calloc(a[1], a[2], a[3], a[4], a[5])
    [] f = "observed_realloc" -> observed_realloc(a[1], a[2], a[3], a[4], a[5])
    [] f = "observed_realloc_usable" -> observed_realloc_usable(a[1], a[2], a[3], a[4])
    [] f = "observed_free" -> observed_free(a[1], a[2], a[3])
    [] f = "observed_mallopt" -> observed_mallopt(a[1], a[2], a[3])
    [] f = "observed_trim" -> observed_trim(a[1], a[2])
    [] f = "tcache_thread_shutdown" -> tcache_thread_shutdown(a[1], a[2])
    [] f = "observed_shutdown" -> observed_shutdown(a[1], a[2])

(***************************************************************************)
(* The state machine                                                       *)
(***************************************************************************)
VARIABLES mem, av, mp, global_max_fast, tcache, brk, brk_limit, maps, errno,
          fdesc, cc, live, trims, hist, aborted, ops

vars == <<mem, av, mp, global_max_fast, tcache, brk, brk_limit, maps, errno,
          fdesc, cc, live, trims, hist, aborted, ops>>

\* the bounds of the file: the offsets callers name and the bytes of a block
MaxOffset == 2
MaxNbyte == 2

\* the program state as one record, with the scratch fields of a call
St ==
  [mem |-> mem, av |-> av, mp |-> mp, global_max_fast |-> global_max_fast,
   tcache |-> tcache, brk |-> brk, brk_limit |-> brk_limit, maps |-> maps,
   errno |-> errno,
   err |-> "", ret |-> 0, done |-> FALSE, rc |-> FALSE, tuc |-> 0, systrims |-> 0,
   scanned |-> << >>, stash |-> << >>, picked |-> << >>,
   held |-> FALSE, relock |-> FALSE, bare |-> FALSE, locks |-> 0]

\* main_arena after malloc_init_state, mp_ after its static initialiser and
\* the tunables tcache_count and tcache_unsorted_limit; calls is the number
\* of calls the callers make, pages the number of pages the system lets the
\* break rise by
InitTuned(count, limit, calls, pages) ==
  /\ mem = << >>
  /\ av = [fastbinsY |-> [i \in 0..(NFASTBINS - 1) |-> 0],
           have_fastchunks |-> FALSE,
           flags |-> 0,
           binmap |-> [i \in 0..(BINMAPSIZE - 1) |-> {}],
           system_mem |-> 0,
           max_system_mem |-> 0]
  /\ mp = [trim_threshold |-> DEFAULT_TRIM_THRESHOLD,
           top_pad |-> DEFAULT_TOP_PAD,
           mmap_threshold |-> DEFAULT_MMAP_THRESHOLD,
           n_mmaps |-> 0,
           n_mmaps_max |-> DEFAULT_MMAP_MAX,
           max_n_mmaps |-> 0,
           no_dyn_threshold |-> 0,
           mmapped_mem |-> 0,
           max_mmapped_mem |-> 0,
           sbrk_base |-> 0,
           tcache_bins |-> TCACHE_MAX_BINS,
           tcache_max_bytes |-> tidx2usize(TCACHE_MAX_BINS - 1),
           tcache_count |-> count,
           tcache_unsorted_limit |-> limit]
  /\ global_max_fast = ALIGN_DOWN(DEFAULT_MXFAST + SIZE_SZ, MALLOC_ALIGNMENT)
  /\ tcache = [t \in Threads |->
                 [ptr |-> 0, shutting_down |-> FALSE,
                  counts |-> [i \in 0..(TCACHE_MAX_BINS - 1) |-> 0],
                  entries |-> [i \in 0..(TCACHE_MAX_BINS - 1) |-> 0]]]
  /\ brk = InitialBrk
  /\ brk_limit = InitialBrk + pages * pagesize
  /\ maps = {}
  /\ errno = 0
  /\ fdesc = [pos |-> 0, data |-> [x \in 0..(MaxOffset + MaxNbyte - 1) |-> 0]]
  /\ cc = NoThreads
  /\ live = << >>
  /\ trims = << >>
  /\ hist = << >>
  /\ aborted = ""
  /\ ops = calls

InitRoom(count, calls, pages) == InitTuned(count, 0, calls, pages)

InitWith(count, calls) == InitRoom(count, calls, MaxHeapPages)

\* the effect of a call on the program state; a terminated process keeps
\* the state it had when the call was made
CommitArena(s) ==
  /\ brk_limit' = brk_limit
  /\ fdesc' = fdesc
  /\ IF s.err # ""
    THEN /\ aborted' = s.err
         /\ UNCHANGED <<mem, av, mp, global_max_fast, tcache, brk, maps, errno>>
    ELSE /\ mem' = s.mem
         /\ av' = s.av
         /\ mp' = s.mp
         /\ global_max_fast' = s.global_max_fast
         /\ tcache' = s.tcache
         /\ brk' = s.brk
         /\ maps' = s.maps
         /\ errno' = s.errno
         /\ aborted' = ""

\* the effect of a call made in one piece: the threads are where they were
Commit(s) ==
  /\ CommitArena(s)
  /\ cc' = cc

\* ops is the number of calls the callers still make
\* the caller's record of the regions it holds: p -> requested size and the
\* number of times p was handed out since it was last released
Hand(l, p, n) ==
  IF p \in DOMAIN l THEN [l EXCEPT ![p] = [n |-> n, cnt |-> @.cnt + 1]]
  ELSE (p :> [n |-> n, cnt |-> 1]) @@ l

Drop(l, p) == [x \in (DOMAIN l) \ {p} |-> l[x]]

\* what the caller holds after a call that may hand out a region of n bytes
Handed(s, n) ==
  /\ Commit(s)
  /\ live' = IF s.err = "" /\ s.ret # 0 THEN Hand(live, s.ret, n) ELSE live

\* what the caller holds after the release of p
Released(s, p) ==
  /\ Commit(s)
  /\ live' = IF s.err = "" THEN Drop(live, p) ELSE live

\* what the caller holds after the reallocation of p to n bytes
Moved(s, p, n) ==
  /\ Commit(s)
  /\ live' = IF s.err # "" THEN live
             ELSE IF s.ret # 0 THEN Hand(Drop(live, p), s.ret, n)
             ELSE IF n = 0 THEN Drop(live, p)
             ELSE live

\* hist is the record of the latest calls that were made to be observed; a
\* call that is not observed empties it
\* trims is the pad followed by the outcomes (the result and the break left)
\* of the calls of malloc_trim made in a row with that pad, the last two at
\* most; any other call empties it
Trimmed(s, pad) ==
  /\ Commit(s)
  /\ trims' = IF s.err # "" THEN trims
              ELSE IF trims # << >> /\ trims[1] = pad
                THEN <<pad, trims[Len(trims)], [ret |-> s.ret, brk |-> s.brk]>>
              ELSE <<pad, [ret |-> s.ret, brk |-> s.brk]>>

Malloc(t, n) ==
  /\ aborted = ""
  /\ ops > 0
  /\ ops' = ops - 1
  /\ Cardinality(DOMAIN live) < MaxLive
  /\ Handed(call("__libc_malloc", <<St, t, n>>), n)
  /\ trims' = << >>
  /\ hist' = << >>

Free(t, p) ==
  /\ aborted = ""
  /\ ops > 0
  /\ ops' = ops - 1
  /\ p \in DOMAIN live
  /\ Released(call("__libc_free", <<St, t, p>>), p)
  /\ trims' = << >>
  /\ hist' = << >>

Realloc(t, p, n) ==
  /\ aborted = ""
  /\ ops > 0
  /\ ops' = ops - 1
  /\ p \in DOMAIN live
  /\ Moved(call("__libc_realloc", <<St, t, p, n>>), p, n)
  /\ trims' = << >>
  /\ hist' = << >>

Memalign(t, alignment, n) ==
  /\ aborted = ""
  /\ ops > 0
  /\ ops' = ops - 1
  /\ Cardinality(DOMAIN live) < MaxLive
  /\ Handed(call("_mid_memalign", <<St, t, alignment, n>>), n)
  /\ trims' = << >>
  /\ hist' = << >>

Trim(pad) ==
  /\ aborted = ""
  /\ ops > 0
  /\ ops' = ops - 1
  /\ Trimmed(call("__malloc_trim", <<St, pad>>), pad)
  /\ hist' = << >>
  /\ UNCHANGED live

Mallopt(param_number, value) ==
  /\ aborted = ""
  /\ ops > 0
  /\ ops' = ops - 1
  /\ Commit(call("__libc_mallopt", <<St, param_number, value>>))
  /\ trims' = << >>
  /\ hist' = << >>
  /\ UNCHANGED live

\* the tunable glibc.malloc.tcache_count, set through its callback
TuneTcacheCount(value) ==
  /\ aborted = ""
  /\ ops > 0
  /\ ops' = ops - 1
  /\ Commit(do_set_tcache_count(St, value))
  /\ trims' = << >>
  /\ hist' = << >>
  /\ UNCHANGED live

\* the tunable glibc.malloc.tcache_unsorted_limit, set through its callback
TuneUnsortedLimit(value) ==
  /\ aborted = ""
  /\ ops > 0
  /\ ops' = ops - 1
  /\ Commit(do_set_tcache_unsorted_limit(St, value))
  /\ trims' = << >>
  /\ hist' = << >>
  /\ UNCHANGED live

MainThread == CHOOSE t \in Threads : \A u \in Threads : t <= u

(***************************************************************************)
(* Spec: two threads allocate, release, reallocate and allocate aligned    *)
(***************************************************************************)
Init == \E count \in {1, TCACHE_FILL_COUNT} : InitWith(count, MaxOps)

Next ==
  \/ \E t \in Threads : Malloc(t, 24)
  \/ \E t \in Threads, p \in DOMAIN live : Free(t, p)
  \/ \E t \in Threads, p \in DOMAIN live : Realloc(t, p, 120)
  \/ \E t \in Threads : Memalign(t, 64, 24)

Spec == Init /\ [][Next]_vars

(***************************************************************************)
(* SpecArena: one thread uses every entry on small sizes                   *)
(***************************************************************************)
InitArena == \E count \in {0, 1} : InitWith(count, MaxOpsArena)

NextArena ==
  \/ \E n \in {24, 200} : Malloc(MainThread, n)
  \/ \E p \in DOMAIN live : Free(MainThread, p)
  \/ \E p \in DOMAIN live : Realloc(MainThread, p, 120)
  \/ Memalign(MainThread, 64, 24)
  \/ Trim(0)
  \/ Mallopt(M_MXFAST, 0)

SpecArena == InitArena /\ [][NextArena]_vars

(***************************************************************************)
(* SpecLarge: one thread works on sizes of one large bin                   *)
(***************************************************************************)
InitLarge == InitWith(TCACHE_FILL_COUNT, MaxOpsLarge)

NextLarge ==
  \/ \E n \in {1048, 1064, 2000} : Malloc(MainThread, n)
  \/ \E p \in DOMAIN live : Free(MainThread, p)

SpecLarge == InitLarge /\ [][NextLarge]_vars

(***************************************************************************)
(* SpecTcache: releases by two threads, the cache count is tuned           *)
(***************************************************************************)
InitTcache == InitWith(1, MaxOpsTcache)

NextTcache ==
  \/ \E n \in {24, 200} : Malloc(MainThread, n)
  \/ \E t \in Threads, p \in DOMAIN live : Free(t, p)
  \/ \E value \in {1, 2} : TuneTcacheCount(value)

SpecTcache == InitTcache /\ [][NextTcache]_vars

(***************************************************************************)
(* SpecTiers: one thread allocates from every tier and lowers the fast     *)
(* ceiling                                                                 *)
(***************************************************************************)
InitTiers == \E count \in {0, 1} : InitWith(count, MaxOpsTiers)

NextTiers ==
  \/ \E n \in {28, 200, 1050, 200000} : Malloc(MainThread, n)
  \/ \E p \in DOMAIN live : Free(MainThread, p)
  \/ Mallopt(M_MXFAST, 0)

SpecTiers == InitTiers /\ [][NextTiers]_vars

(***************************************************************************)
(* SpecTrim: one thread allocates, releases and trims                      *)
(***************************************************************************)
InitTrim == InitWith(0, MaxOpsTrim)

NextTrim ==
  \/ \E n \in {24, 8000} : Malloc(MainThread, n)
  \/ \E p \in DOMAIN live : Free(MainThread, p)
  \/ \E pad \in {0, 4096} : Trim(pad)

SpecTrim == InitTrim /\ [][NextTrim]_vars

NotAborted == aborted = ""

(***************************************************************************)
(* The layout of a state: the chunks of the arena and where each is held   *)
(***************************************************************************)
WalkFuel == 48

\* the first chunk of the contiguous heap
heap_base(s) == ALIGN_UP(chunk2mem(s.mp.sbrk_base), MALLOC_ALIGNMENT) - 2 * SIZE_SZ

RECURSIVE region_walk(_, _, _, _)
\* the chunks met from p on, stepping by size, up to the top chunk, a
\* fencepost or the end of the region
region_walk(s, p, end, fuel) ==
  IF fuel = 0 \/ p >= end THEN {}
  ELSE IF p = top(s) THEN {p}
  ELSE IF chunksize(s, p) < MINSIZE THEN {}
  ELSE {p} \cup region_walk(s, p + chunksize(s, p), end, fuel - 1)

\* the regions obtained by mmap that extend the arena (not single chunks)
arena_maps(s) == {r \in s.maps : ~chunk_is_mmapped(s, r.base)}
chunk_maps(s) == {r \in s.maps : chunk_is_mmapped(s, r.base)}

\* every chunk of the arena, the top chunk included
heap_chunks(s) ==
  (IF s.mp.sbrk_base = 0 THEN {} ELSE region_walk(s, heap_base(s), s.brk, WalkFuel))
  \cup UNION {region_walk(s, r.base, r.base + r.len, WalkFuel) : r \in arena_maps(s)}

RECURSIVE fd_list(_, _, _, _)
\* the chunks of a circular list, from p along fd until the header b
fd_list(s, b, p, fuel) ==
  IF p = b \/ fuel = 0 THEN << >> ELSE <<p>> \o fd_list(s, b, Fd(s, p), fuel - 1)

RECURSIVE fast_list(_, _, _)
\* the chunks of a fast bin, from p along fd until NULL
fast_list(s, p, fuel) ==
  IF p = 0 \/ fuel = 0 THEN << >> ELSE <<p>> \o fast_list(s, Fd(s, p), fuel - 1)

RECURSIVE tcache_list(_, _, _)
\* the chunks of a tcache bucket, from entry e along next until NULL
tcache_list(s, e, fuel) ==
  IF e = 0 \/ fuel = 0 THEN << >> ELSE <<mem2chunk(e)>> \o tcache_list(s, Rd(s, e), fuel - 1)

bin_chunks(s, i) == fd_list(s, bin_at(i), first(s, bin_at(i)), WalkFuel)
fastbin_chunks(s, i) == fast_list(s, s.av.fastbinsY[i], WalkFuel)
bucket_chunks(s, t, i) == tcache_list(s, s.tcache[t].entries[i], WalkFuel)

\* the bins whose list is not empty
used_bins(s) == {i \in 1..(NBINS - 1) : first(s, bin_at(i)) # bin_at(i)}
used_fastbins(s) == {i \in 0..(NFASTBINS - 1) : s.av.fastbinsY[i] # 0}
used_buckets(s) ==
  {x \in Threads \X (0..(TCACHE_MAX_BINS - 1)) : s.tcache[x[1]].entries[x[2]] # 0}

\* the holdings <<place, index, position, chunk>> of the free lists
placed(place, i, L) == {<<place, i, k, L[k]>> : k \in 1..Len(L)}

tcache_holdings(s) ==
  UNION {placed("tcache", x, bucket_chunks(s, x[1], x[2])) : x \in used_buckets(s)}

fast_holdings(s) ==
  UNION {placed("fast", i, fastbin_chunks(s, i)) : i \in used_fastbins(s)}

bin_holdings(s) ==
  UNION {placed(IF i = 1 THEN "unsorted" ELSE "bin", i, bin_chunks(s, i)) : i \in used_bins(s)}

\* the chunks in use: held by a caller, or holding a thread's tcache structure
inuse_holdings(s, l) ==
  {<<"caller", 0, 0, mem2chunk(p)>> : p \in {q \in DOMAIN l : ~chunk_is_mmapped(s, mem2chunk(q))}}
  \cup {<<"caller", t, 0, mem2chunk(s.tcache[t].ptr)>> : t \in {u \in Threads : s.tcache[u].ptr # 0}}

top_holdings(s) == IF top(s) = initial_top THEN {} ELSE {<<"top", 0, 0, top(s)>>}

holdings(s, l) ==
  tcache_holdings(s) \cup fast_holdings(s) \cup bin_holdings(s)
  \cup inuse_holdings(s, l) \cup top_holdings(s)

\* the chunks a caller holds that are page-mapped
mapped_chunks(s, l) ==
  {mem2chunk(p) : p \in {q \in DOMAIN l : chunk_is_mmapped(s, mem2chunk(q))}}

\* the chunks on the unsorted queue or in a small or large bin
binned_chunks(s) == {x[4] : x \in bin_holdings(s)}
\* the chunks in a tcache bucket or a fast bin
cached_chunks(s) == {x[4] : x \in tcache_holdings(s) \cup fast_holdings(s)}

(***************************************************************************)
(* The observed calls as actions: hist keeps the records of the latest     *)
(***************************************************************************)
HistLen == 4

Log(rec) ==
  hist' = IF Len(hist) < HistLen THEN Append(hist, rec) ELSE Append(Tail(hist), rec)

\* r is what an observed call yields: the state it returned in and the record
Allocated(r, n) ==
  /\ Handed(r.state, n)
  /\ Log(r.rec)

Reallocated(r, m) ==
  /\ Moved(r.state, m, r.rec.n)
  /\ Log(r.rec)

Freed(r, m) ==
  /\ Released(r.state, m)
  /\ Log(r.rec)

Tuned(r) ==
  /\ Commit(r.state)
  /\ Log(r.rec)

\* realloc (m, n) of a region the caller has written
ReallocL(t, m, n) ==
  /\ aborted = ""
  /\ ops > 0
  /\ ops' = ops - 1
  /\ m \in DOMAIN live
  /\ Reallocated(call("observed_realloc", <<St, live, t, m, n>>), m)
  /\ trims' = << >>

\* realloc (m, malloc_usable_size (m))
ReallocUsable(t, m) ==
  /\ aborted = ""
  /\ ops > 0
  /\ ops' = ops - 1
  /\ m \in DOMAIN live
  /\ Reallocated(call("observed_realloc_usable", <<St, live, t, m>>), m)
  /\ trims' = << >>

(***************************************************************************)
(* SpecRealloc: one thread allocates, releases and reallocates regions it  *)
(* has written, in the arena and page-mapped                               *)
(***************************************************************************)
InitRealloc == \E count \in {0, 1} : InitWith(count, MaxOpsRealloc)

NextRealloc ==
  \/ \E n \in {200, 200000} : Malloc(MainThread, n)
  \/ \E p \in DOMAIN live : Free(MainThread, p)
  \/ \E p \in DOMAIN live, n \in {40, 300, 30000} : ReallocL(MainThread, p, n)
  \/ \E p \in DOMAIN live : ReallocUsable(MainThread, p)

SpecRealloc == InitRealloc /\ [][NextRealloc]_vars

\* free (m), observed
FreeL(t, m) ==
  /\ aborted = ""
  /\ ops > 0
  /\ ops' = ops - 1
  /\ m \in DOMAIN live
  /\ Freed(call("observed_free", <<St, t, m>>), m)
  /\ trims' = << >>

\* free (m) once more, right after the call that released m; the caller
\* makes no call after it
Refree(t) ==
  /\ aborted = ""
  /\ ops > 0
  /\ ops' = 0
  /\ hist # << >>
  /\ hist[Len(hist)].op = "free"
  /\ Freed(call("observed_free", <<St, t, hist[Len(hist)].p>>), hist[Len(hist)].p)
  /\ trims' = << >>

(***************************************************************************)
(* SpecDouble: regions of the arena are released, by either thread, and    *)
(* released once more                                                      *)
(***************************************************************************)
InitDouble == \E count \in {0, 1} : InitWith(count, MaxOpsDouble)

NextDouble ==
  \/ \E n \in {24, 200, 1050} : Malloc(MainThread, n)
  \/ \E t \in Threads, p \in DOMAIN live : FreeL(t, p)
  \/ \E t \in Threads : Refree(t)

SpecDouble == InitDouble /\ [][NextDouble]_vars

\* malloc (n), observed
MallocL(t, n) ==
  /\ aborted = ""
  /\ ops > 0
  /\ ops' = ops - 1
  /\ Cardinality(DOMAIN live) < MaxLive
  /\ Allocated(call("observed_malloc", <<St, live, t, n>>), n)
  /\ trims' = << >>

\* memalign (alignment, n), observed
MemalignL(t, alignment, n) ==
  /\ aborted = ""
  /\ ops > 0
  /\ ops' = ops - 1
  /\ Cardinality(DOMAIN live) < MaxLive
  /\ Allocated(call("observed_memalign", <<St, live, t, alignment, n>>), n)
  /\ trims' = << >>

\* pvalloc (n), observed
PvallocL(t, n) ==
  /\ aborted = ""
  /\ ops > 0
  /\ ops' = ops - 1
  /\ Cardinality(DOMAIN live) < MaxLive
  /\ Allocated(call("observed_pvalloc", <<St, live, t, n>>), n)
  /\ trims' = << >>

\* calloc (n, elem_size), observed
CallocL(t, n, elem_size) ==
  /\ aborted = ""
  /\ ops > 0
  /\ ops' = ops - 1
  /\ Cardinality(DOMAIN live) < MaxLive
  /\ Allocated(call("observed_calloc", <<St, live, t, n, elem_size>>), n * elem_size)
  /\ trims' = << >>

\* the caller writes to the region p it holds
Scribble(p) ==
  /\ aborted = ""
  /\ ops > 0
  /\ ops' = ops - 1
  /\ Commit(call("Fill", <<St, p>>))
  /\ hist' = << >>
  /\ UNCHANGED live
  /\ trims' = << >>

(***************************************************************************)
(* SpecLifo: one thread allocates and releases small regions               *)
(***************************************************************************)
InitLifo == \E count \in {0, 1, 2} : InitWith(count, MaxOpsLifo)

NextLifo ==
  \/ \E n \in {24, 200} : MallocL(MainThread, n)
  \/ \E p \in DOMAIN live : FreeL(MainThread, p)

SpecLifo == InitLifo /\ [][NextLifo]_vars

\* mallopt (param_number, value), observed
MalloptL(param_number, value) ==
  /\ aborted = ""
  /\ ops > 0
  /\ ops' = ops - 1
  /\ Tuned(call("observed_mallopt", <<St, param_number, value>>))
  /\ trims' = << >>
  /\ UNCHANGED live

(***************************************************************************)
(* SpecFast: the fast ceiling is set, and requests at the ceiling and one  *)
(* byte above it are allocated and released                                *)
(***************************************************************************)
Ceilings == {24, 64, 72, 80}

InitFast == \E count \in {0, 1} : InitWith(count, MaxOpsFast)

NextFast ==
  \/ \E c \in Ceilings : MalloptL(M_MXFAST, c)
  \/ \E c \in Ceilings, d \in {0, 1} : MallocL(MainThread, c + d)
  \/ \E p \in DOMAIN live : FreeL(MainThread, p)

SpecFast == InitFast /\ [][NextFast]_vars

(***************************************************************************)
(* SpecThreshold: the mmap threshold is lowered, and requests below and    *)
(* above it are allocated and released                                     *)
(***************************************************************************)
LowThreshold == 2048

InitThreshold == \E count \in {0, 1} : InitWith(count, MaxOpsThreshold)

NextThreshold ==
  \/ MalloptL(M_MMAP_THRESHOLD, LowThreshold)
  \/ \E n \in {24, 3000, 200000} : MallocL(MainThread, n)
  \/ \E p \in DOMAIN live : FreeL(MainThread, p)

SpecThreshold == InitThreshold /\ [][NextThreshold]_vars

(***************************************************************************)
(* SpecMmapMax: the cap on the mapped chunks is changed while oversize     *)
(* regions are allocated, reallocated and released                         *)
(***************************************************************************)
InitMmapMax == \E count \in {0, 1} : InitWith(count, MaxOpsMmapMax)

NextMmapMax ==
  \/ \E v \in 0..MaxMaps : MalloptL(M_MMAP_MAX, v)
  \/ \E n \in {24, 200000} : MallocL(MainThread, n)
  \/ \E p \in DOMAIN live : FreeL(MainThread, p)
  \/ \E p \in DOMAIN live : ReallocL(MainThread, p, 300000)

SpecMmapMax == InitMmapMax /\ [][NextMmapMax]_vars

(***************************************************************************)
(* SpecAutoTrim: the break may rise far enough for chunks above the        *)
(* consolidation threshold; the trim threshold is lowered or switched off  *)
(***************************************************************************)
InitAutoTrim == \E count \in {0, 1} : InitRoom(count, MaxOpsAutoTrim, RoomyHeapPages)

NextAutoTrim ==
  \/ \E v \in {2 * pagesize, -1} : MalloptL(M_TRIM_THRESHOLD, v)
  \/ \E n \in {200, FASTBIN_CONSOLIDATION_THRESHOLD + 200} : MallocL(MainThread, n)
  \/ \E p \in DOMAIN live : FreeL(MainThread, p)

SpecAutoTrim == InitAutoTrim /\ [][NextAutoTrim]_vars

(***************************************************************************)
(* SpecAlign: regions are allocated with alignments that are powers of two *)
(* and that are not, from the arena and page-mapped                        *)
(***************************************************************************)
Alignments == {3, 32, 48, 4096}

InitAlign == \E count \in {0, 1} : InitWith(count, MaxOpsAlign)

NextAlign ==
  \/ \E n \in {24, 200} : MallocL(MainThread, n)
  \/ \E p \in DOMAIN live : FreeL(MainThread, p)
  \/ \E a \in Alignments, n \in {40, 1000, 200000} : MemalignL(MainThread, a, n)

SpecAlign == InitAlign /\ [][NextAlign]_vars

(***************************************************************************)
(* SpecCalloc: regions are written, released, trimmed away and asked for   *)
(* again cleared                                                           *)
(***************************************************************************)
MaxOpsCalloc == 5

\* the element counts of the cleared requests, of SIZE_SZ bytes each
ClearedCounts == {3, 1125}

InitCalloc == \E count \in {0, 1} : InitWith(count, MaxOpsCalloc)

NextCalloc ==
  \/ \E n \in {24, 9000} : MallocL(MainThread, n)
  \/ \E p \in DOMAIN live : Scribble(p)
  \/ \E p \in DOMAIN live : FreeL(MainThread, p)
  \/ Trim(0)
  \/ \E n \in ClearedCounts : CallocL(MainThread, n, SIZE_SZ)

SpecCalloc == InitCalloc /\ [][NextCalloc]_vars

(***************************************************************************)
(* SpecPvalloc: whole pages are asked for                                  *)
(***************************************************************************)
MaxOpsPvalloc == 3

\* the sizes asked of pvalloc; the negative ones are the sizes above
\* SIZE_MAX / 2, of which -1 and 1 - pagesize overflow when rounded and
\* -pagesize does not
PageRequests == {0, 1, 2, 4095, 4096, 4097, 5000, -1, 1 - pagesize, -pagesize}

InitPvalloc == \E count \in {0, 1} : InitWith(count, MaxOpsPvalloc)

NextPvalloc ==
  \/ \E n \in {24, 200} : MallocL(MainThread, n)
  \/ \E p \in DOMAIN live : FreeL(MainThread, p)
  \/ \E n \in PageRequests : PvallocL(MainThread, n)

SpecPvalloc == InitPvalloc /\ [][NextPvalloc]_vars

(***************************************************************************)
(* SpecPwrite: blocks are written at offsets of a file whose pointer the   *)
(* caller moves; the system refuses any of the calls                       *)
(***************************************************************************)
MaxOpsPwrite == 2

\* the memory allocator takes no part
AllocatorIdle ==
  UNCHANGED <<mem, av, mp, global_max_fast, tcache, brk, brk_limit, maps, cc, live,
              trims, aborted>>

\* lseek64 (fd, offset, SEEK_SET) by the caller
LseekL(offset) ==
  /\ ops > 0
  /\ ops' = ops - 1
  /\ LET f == __libc_lseek64([pos |-> fdesc.pos, data |-> fdesc.data, errno |-> errno,
                              ret |-> 0, log |-> << >>], offset, SEEK_SET, FALSE)
     IN  /\ fdesc' = [pos |-> f.pos, data |-> f.data]
         /\ errno' = f.errno
  /\ hist' = << >>
  /\ AllocatorIdle

\* pwrite64 (fd, buf, nbyte, offset), observed; the block holds nbyte bytes b
\* and the system refuses the lseek64 calls sys says
Pwrite64L(b, nbyte, offset, sys) ==
  /\ ops > 0
  /\ ops' = ops - 1
  /\ LET buf == [i \in 1..nbyte |-> b]
         f == __libc_pwrite64([pos |-> fdesc.pos, data |-> fdesc.data, errno |-> errno,
                               ret |-> 0, log |-> << >>], buf, nbyte, offset, sys)
     IN  /\ fdesc' = [pos |-> f.pos, data |-> f.data]
         /\ errno' = f.errno
         /\ hist' = <<[op |-> "pwrite64", pos0 |-> fdesc.pos, errno0 |-> errno, b |-> b,
                 nbyte |-> nbyte, offset |-> offset, ret |-> f.ret, log |-> f.log]>>
  /\ AllocatorIdle

InitPwrite == InitWith(0, MaxOpsPwrite)

NextPwrite ==
  \/ \E offset \in 0..MaxOffset : LseekL(offset)
  \/ \E nbyte \in 0..MaxNbyte, offset \in -1..MaxOffset, refused \in 0..3 :
      \E wrote \in -1..nbyte :
        Pwrite64L(1, nbyte, offset,
                  [seek1 |-> refused = 1, seek2 |-> refused = 2, seek3 |-> refused = 3,
                   wrote |-> wrote])

SpecPwrite == InitPwrite /\ [][NextPwrite]_vars

(***************************************************************************)
(* SpecScan: small regions are released to the fast bins and regions of    *)
(* small-bin and of large size are asked for                               *)
(***************************************************************************)
MaxOpsScan == 4

InitScan == \E count \in {0, 1} : InitWith(count, MaxOpsScan)

NextScan ==
  \/ \E n \in {24, 200, 2000} : MallocL(MainThread, n)
  \/ \E p \in DOMAIN live : FreeL(MainThread, p)

SpecScan == InitScan /\ [][NextScan]_vars

(***************************************************************************)
(* SpecThreads: two threads allocate and release step by step.  The main   *)
(* thread asks for small regions and releases them, the other releases     *)
(* them too and asks for large ones.                                       *)
(***************************************************************************)
MaxOpsThreads == 5

\* the effect of a step r of a thread
Step(r) ==
  /\ CommitArena(r.state)
  /\ cc' = IF r.state.err # "" THEN cc ELSE r.cc
  /\ hist' = << >>
  /\ trims' = << >>

\* a step that touches nothing but the thread's own variables and the mutex
ProgramIdle ==
  /\ UNCHANGED <<mem, av, mp, global_max_fast, tcache, brk, brk_limit, maps, errno,
                 fdesc, aborted>>
  /\ hist' = << >>
  /\ trims' = << >>

At(t, pcs) == aborted = "" /\ cc.th[t].pc \in pcs

\* the first call of a thread: tcache_init
StartInit(t) ==
  /\ At(t, {"idle"})
  /\ tcache[t].ptr = 0
  /\ cc' = [cc EXCEPT !.th[t].pc = "t_lock", !.actor = t]
  /\ ProgramIdle
  /\ UNCHANGED <<live, ops>>

\* malloc (n) begins
StartMalloc(t, n) ==
  /\ At(t, {"idle"})
  /\ tcache[t].ptr # 0
  /\ ops > 0
  /\ ops' = ops - 1
  /\ Cardinality(DOMAIN live) + Cardinality({u \in Threads : cc.th[u].nb # 0}) < MaxLive
  /\ cc' = [cc EXCEPT !.th[t] = [IdleThread EXCEPT !.pc = "m_lock", !.n = n,
                                                   !.nb = request2size(n)],
                      !.actor = t]
  /\ ProgramIdle
  /\ UNCHANGED live

\* free (m) begins
StartFree(t, m) ==
  /\ At(t, {"idle"})
  /\ tcache[t].ptr # 0
  /\ ops > 0
  /\ ops' = ops - 1
  /\ live' = Drop(live, m)
  /\ Step(call("start_free", <<St, cc, t, m>>))

\* arena_get and __libc_lock_lock (av->mutex)
Acquire(t) ==
  /\ At(t, {"t_lock", "m_lock", "f_lock"})
  /\ cc.mutex = 0
  /\ cc' = [cc EXCEPT !.mutex = t, !.actor = t,
                      !.th[t].pc = CASE cc.th[t].pc = "t_lock" -> "t_body"
                                     [] cc.th[t].pc = "m_lock" -> "m_fast"
                                     [] OTHER -> "f_body"]
  /\ ProgramIdle
  /\ UNCHANGED <<live, ops>>

\* __libc_lock_unlock (av->mutex) and the return to the caller
Release(t) ==
  /\ At(t, {"t_unlock", "m_unlock", "f_unlock"})
  /\ cc' = [cc EXCEPT !.mutex = 0, !.actor = t, !.th[t] = IdleThread]
  /\ live' = IF cc.th[t].pc = "m_unlock" /\ cc.th[t].ret # 0
               THEN Hand(live, cc.th[t].ret, cc.th[t].n) ELSE live
  /\ ProgramIdle
  /\ UNCHANGED ops

PushStep(t) ==
  /\ At(t, {"f_flag", "f_read", "f_link", "f_cas"})
  /\ Step(call("push_step", <<St, cc, t>>))
  /\ UNCHANGED <<live, ops>>

PopStep(t) ==
  /\ At(t, {"m_fast", "pop_fd", "pop_cas"})
  /\ Step(call("pop_step", <<St, cc, t>>))
  /\ UNCHANGED <<live, ops>>

SweepStep(t) ==
  /\ At(t, {"c_clear", "c_xchg"})
  /\ Step(call("sweep_step", <<St, cc, t>>))
  /\ UNCHANGED <<live, ops>>

LockedStep(t) ==
  /\ At(t, {"t_body", "m_bins", "m_search", "f_body"})
  /\ Step(call("locked_step", <<St, cc, t>>))
  /\ UNCHANGED <<live, ops>>

InitThreads == InitWith(0, MaxOpsThreads)

NextThreads ==
  \/ \E t \in Threads : StartInit(t)
  \/ StartMalloc(MainThread, 24)
  \/ \E t \in Threads \ {MainThread} : StartMalloc(t, 1500)
  \/ \E t \in Threads, m \in DOMAIN live : StartFree(t, m)
  \/ \E t \in Threads : Acquire(t)
  \/ \E t \in Threads : Release(t)
  \/ \E t \in Threads : PushStep(t)
  \/ \E t \in Threads : PopStep(t)
  \/ \E t \in Threads : SweepStep(t)
  \/ \E t \in Threads : LockedStep(t)

SpecThreads == InitThreads /\ [][NextThreads]_vars

(***************************************************************************)
(* SpecStash: with the tcache switched off one thread allocates, shrinks   *)
(* regions in place and the other releases one, which leaves chunks on the *)
(* unsorted list; then the tcache is switched on and an allocation drains   *)
(* the list.                                                               *)
(***************************************************************************)
InitStash == \E limit \in {0, 1} : InitTuned(0, limit, MaxOpsStash, MaxHeapPages)

NextStash ==
  \/ \E n \in {136, 280} : MallocL(MainThread, n)
  \/ \E t \in Threads \ {MainThread}, p \in DOMAIN live : FreeL(t, p)
  \/ \E p \in DOMAIN live, n \in {120, 136} : ReallocL(MainThread, p, n)
  \/ \E count \in {1, StashRoom} : TuneTcacheCount(count)

SpecStash == InitStash /\ [][NextStash]_vars

(***************************************************************************)
(* SpecBest: one thread allocates and releases regions of two sizes of one *)
(* large bin, too large for the tcache                                     *)
(***************************************************************************)
InitBest == InitWith(0, MaxOpsBest)

NextBest ==
  \/ \E n \in {1048, 1064} : MallocL(MainThread, n)
  \/ \E p \in DOMAIN live : FreeL(MainThread, p)

SpecBest == InitBest /\ [][NextBest]_vars

(***************************************************************************)
(* SpecBinmap: one thread, the tcache switched off, uses the entries on    *)
(* sizes of the fast bins, the small bins and the large bins               *)
(***************************************************************************)
InitBinmap == InitWith(0, MaxOpsBinmap)

NextBinmap ==
  \/ \E n \in {24, 200, 1050} : MallocL(MainThread, n)
  \/ \E p \in DOMAIN live : FreeL(MainThread, p)
  \/ \E p \in DOMAIN live : ReallocL(MainThread, p, 120)
  \/ MemalignL(MainThread, 64, 200)
  \/ Trim(0)

SpecBinmap == InitBinmap /\ [][NextBinmap]_vars

(***************************************************************************)
(* SpecTop: one thread, the tcache switched off, allocates, reallocates,   *)
(* releases and trims while another user of the break raises it, until    *)
(* the break meets its limit and the arena goes on in mapped memory        *)
(***************************************************************************)
\* a call of sbrk that is not the allocator's: the break rises by a page,
\* which cc.foreign remembers
ForeignSbrk ==
  /\ aborted = ""
  /\ ops > 0
  /\ ops' = ops - 1
  /\ brk + pagesize <= brk_limit
  /\ brk' = brk + pagesize
  /\ hist' = << >>
  /\ trims' = << >>
  /\ cc' = [cc EXCEPT !.foreign = @ \cup {brk}]
  /\ UNCHANGED <<mem, av, mp, global_max_fast, tcache, brk_limit, maps, errno,
                 fdesc, live, aborted>>

InitTop == InitWith(0, MaxOpsTop)

NextTop ==
  \/ \E n \in {200, 9000} : MallocL(MainThread, n)
  \/ \E p \in DOMAIN live : FreeL(MainThread, p)
  \/ \E p \in DOMAIN live : ReallocL(MainThread, p, 1000)
  \/ Trim(0)
  \/ ForeignSbrk

SpecTop == InitTop /\ [][NextTop]_vars

(***************************************************************************)
(* SpecFit: one thread allocates and releases regions of a fast size, of   *)
(* two neighbouring small sizes and of a large size, with the tcache on    *)
(* and off                                                                 *)
(***************************************************************************)
InitFit == \E count \in {0, 1} : InitWith(count, MaxOpsFit)

NextFit ==
  \/ \E n \in {24, 184, 200, 1050} : Malloc(MainThread, n)
  \/ \E p \in DOMAIN live : Free(MainThread, p)

SpecFit == InitFit /\ [][NextFit]_vars

(***************************************************************************)
(* SpecDyn: regions below the mmap threshold, two sizes above it and one   *)
(* above DEFAULT_MMAP_THRESHOLD_MAX are allocated and released; mallopt    *)
(* sets the fast ceiling, the top pad and the mmap threshold, to a low     *)
(* value and to one that is refused                                        *)
(***************************************************************************)
OverMax == DEFAULT_MMAP_THRESHOLD_MAX + pagesize

InitDyn == InitWith(0, MaxOpsDyn)

NextDyn ==
  \/ \E v \in {LowThreshold, OverMax} : MalloptL(M_MMAP_THRESHOLD, v)
  \/ MalloptL(M_TOP_PAD, 0)
  \/ MalloptL(M_MXFAST, 64)
  \/ \E n \in {3000, 200000, 300000, OverMax} : MallocL(MainThread, n)
  \/ \E p \in DOMAIN live : FreeL(MainThread, p)

SpecDyn == InitDyn /\ [][NextDyn]_vars

(***************************************************************************)
(* SpecShutdown: two threads with buckets of two chunks allocate and       *)
(* release a fast and a small size; a thread exits and goes on calling,    *)
(* as the destructors of its thread-local objects may                      *)
(***************************************************************************)
\* thread t exits: __malloc_arena_thread_freeres calls tcache_thread_shutdown
ShutdownL(t) ==
  /\ aborted = ""
  /\ ops > 0
  /\ ops' = ops - 1
  /\ Tuned(call("observed_shutdown", <<St, t>>))
  /\ trims' = << >>
  /\ UNCHANGED live

InitShutdown == InitWith(StashRoom, MaxOpsShutdown)

NextShutdown ==
  \/ \E t \in Threads, n \in {24, 200} : MallocL(t, n)
  \/ \E t \in Threads, p \in DOMAIN live : FreeL(t, p)
  \/ \E t \in Threads : ShutdownL(t)

SpecShutdown == InitShutdown /\ [][NextShutdown]_vars

(***************************************************************************)
(* SpecLock: every public entry is called, with requests that are met from *)
(* the tcache, the arena and a mapping and requests that fail; each call   *)
(* is recorded with what it did to the mutex of the arena                  *)
(***************************************************************************)
\* malloc_trim (pad), observed
TrimL(pad) ==
  /\ aborted = ""
  /\ ops > 0
  /\ ops' = ops - 1
  /\ Tuned(call("observed_trim", <<St, pad>>))
  /\ trims' = << >>
  /\ UNCHANGED live

InitLock == \E count \in {0, 1} : InitWith(count, MaxOpsLock)

NextLock ==
  \/ \E n \in {24, 200, 200000, TooMuch} : MallocL(MainThread, n)
  \/ \E p \in DOMAIN live : FreeL(MainThread, p)
  \/ \E p \in DOMAIN live, n \in {24, 1000, TooMuch} : ReallocL(MainThread, p, n)
  \/ \E n \in {200, TooMuch} : MemalignL(MainThread, 64, n)
  \/ \E n \in {200, TooMuch} : CallocL(MainThread, 1, n)
  \/ MalloptL(M_MXFAST, 64)
  \/ TrimL(0)
  \/ ShutdownL(MainThread)

SpecLock == InitLock /\ [][NextLock]_vars

(***************************************************************************)
(* SpecDrain: the unsorted loop of an allocation, an iteration at a time,  *)
(* over every list the loop may find: each iteration meets an empty list,  *)
(* a chunk of the requested size, the last remainder or another chunk.     *)
(***************************************************************************)
\* an allocation reaches the unsorted loop; the bucket of its size is empty
StartDrain(usable) ==
  /\ aborted = ""
  /\ cc.drain.pc = "idle"
  /\ ops > 0
  /\ ops' = ops - 1
  /\ cc' = [cc EXCEPT !.drain = [NoDrain EXCEPT !.pc = "loop", !.usable = usable,
                                                !.tcache_count = mp.tcache_count,
                                                !.limit = mp.tcache_unsorted_limit]]
  /\ ProgramIdle
  /\ UNCHANGED live

\* one iteration of the loop
DrainStep(kind) ==
  /\ aborted = ""
  /\ cc.drain.pc = "loop"
  /\ cc' = [cc EXCEPT !.drain = drain_step(cc.drain, kind)]
  /\ ProgramIdle
  /\ UNCHANGED <<live, ops>>

\* the allocation goes on after the loop, or has returned
EndDrain ==
  /\ aborted = ""
  /\ cc.drain.pc \in {"after", "exact", "split", "cached"}
  /\ cc' = [cc EXCEPT !.drain = NoDrain]
  /\ ProgramIdle
  /\ UNCHANGED <<live, ops>>

InitDrain == \E count \in {0, StashRoom} : InitWith(count, MaxOpsDrain)

NextDrain ==
  \/ TuneUnsortedLimit(StashRoom)
  \/ \E usable \in BOOLEAN : StartDrain(usable)
  \/ \E kind \in {"none", "fit", "split", "other"} : DrainStep(kind)
  \/ EndDrain

SpecDrain == InitDrain /\ [][NextDrain]_vars

(***************************************************************************)
(* SpecFail: two threads ask for more than the system has                  *)
(***************************************************************************)
InitFail == \E count \in {0, 1} : InitWith(count, MaxOpsFail)

NextFail ==
  \/ \E t \in Threads, n \in {24, TooMuch} : MallocL(t, n)
  \/ \E p \in DOMAIN live : FreeL(MainThread, p)
  \/ \E p \in DOMAIN live : ReallocL(MainThread, p, TooMuch)
  \/ MemalignL(MainThread, 64, TooMuch)
  \/ \E n \in {24, TooMuch} : CallocL(MainThread, 1, n)

SpecFail == InitFail /\ [][NextFail]_vars

\* the latest observed call
Last == hist[Len(hist)]

\* the words of the region m the caller wrote that lie within its first n bytes
kept_words(s, m, old, n) ==
  \A k \in SampleWords(old) :
    (k + 1) * SIZE_SZ <= Min(old, n) => Rd(s, m + k * SIZE_SZ) = Stamp(k)

(***************************************************************************)
(* Properties                                                              *)
(***************************************************************************)
\* C1: no two regions that callers hold at the same time overlap, and no
\* region is handed out a second time before it is released.
C1_Disjoint ==
  /\ \A p \in DOMAIN live : live[p].cnt = 1
  /\ \A p, q \in DOMAIN live :
       p # q => (p + live[p].n <= q \/ q + live[q].n <= p)

\* two regions held at the same time lie side by side while a released chunk
\* waits in a cache
C1_Witness ==
  /\ cached_chunks(St) # {}
  /\ \E p, q \in DOMAIN live :
       /\ ~chunk_is_mmapped(St, mem2chunk(p))
       /\ q = chunk2mem(next_chunk(St, mem2chunk(p)))

\* C2: every chunk of the arena is held in exactly one place (a tcache
\* bucket, a fast bin, the unsorted queue, a small or large bin, the top, or
\* in use), every held chunk is a chunk of the arena, and every page-mapped
\* chunk is held by a caller only, one per mapped region.
C2_OnePlace ==
  LET H == holdings(St, live)
      C == heap_chunks(St)
      M == mapped_chunks(St, live)
  IN  /\ \A c \in C : Cardinality({x \in H : x[4] = c}) = 1
      /\ \A x \in H : x[4] \in C
      /\ \A c \in M : \E r \in chunk_maps(St) : r.base = c - prev_size(St, c)
      /\ \A r \in chunk_maps(St) :
           Cardinality({c \in M : c - prev_size(St, c) = r.base}) = 1

\* chunks are held by a caller, in a cache and on a bin at the same time
C2_Witness ==
  /\ DOMAIN live # {}
  /\ fast_holdings(St) # {}
  /\ bin_holdings(St) # {}

\* C3: the P bit of the physical successor of a chunk is 1 when the chunk
\* is in use (held by a caller, in a tcache bucket or in a fast bin) and 0
\* when it is on the unsorted queue or in a small or large bin.
C3_PBit ==
  LET used == cached_chunks(St) \cup {x[4] : x \in inuse_holdings(St, live)}
      binned == binned_chunks(St)
  IN  \A c \in heap_chunks(St) \ {top(St)} :
        /\ c \in used \cup binned
        /\ prev_inuse(St, next_chunk(St, c)) <=> c \in used

\* a chunk on a bin is followed by a region a caller holds, and a chunk in a
\* cache is followed by one as well
C3_Witness ==
  /\ \E c \in binned_chunks(St) : chunk2mem(next_chunk(St, c)) \in DOMAIN live
  /\ \E c \in cached_chunks(St) : chunk2mem(next_chunk(St, c)) \in DOMAIN live

\* C4: a chunk on the unsorted queue or in a small or large bin has no
\* physical neighbour that is also on one of them, and is not followed by
\* the top chunk.
C4_NonAdjacent ==
  LET binned == binned_chunks(St)
  IN  \A c \in binned :
        /\ next_chunk(St, c) \notin binned
        /\ next_chunk(St, c) # top(St)

\* a chunk on a bin is larger than any chunk that was handed out: it was
\* merged from neighbours
C4_Witness ==
  \E c \in binned_chunks(St) : chunksize(St, c) > request2size(200)

\* C5: the prev_size word of the physical successor of a chunk on the
\* unsorted queue or in a small or large bin is the size of that chunk.
C5_BoundaryTag ==
  \A c \in binned_chunks(St) : prev_size(St, next_chunk(St, c)) = chunksize(St, c)

\* the remainder of a split is on the unsorted queue
C5_Witness ==
  /\ last_remainder(St) # 0
  /\ last_remainder(St) \in {x[4] : x \in {y \in bin_holdings(St) : y[2] = 1}}

C7_SizeClass ==
  /\ \A x \in fast_holdings(St) : fastbin_index(chunksize(St, x[4])) = x[2]
  /\ \A x \in bin_holdings(St) :
       x[2] >= 2 =>
         IF x[2] < NSMALLBINS
           THEN chunksize(St, x[4]) = x[2] * SMALLBIN_WIDTH
           ELSE /\ ~in_smallbin_range(chunksize(St, x[4]))
                /\ largebin_index(chunksize(St, x[4])) = x[2]

\* a large bin holds a chunk after the fast ceiling was lowered
C7_Witness ==
  /\ global_max_fast = MIN_CHUNK_SIZE \div 2
  /\ \E x \in bin_holdings(St) : x[2] >= NSMALLBINS

\* the chunks of large bin i along fd, and the positions of those that are
\* the first of their size
largebin_heads(s, i) ==
  {k \in 1..Len(bin_chunks(s, i)) :
     k = 1 \/ chunksize(s, bin_chunks(s, i)[k - 1]) # chunksize(s, bin_chunks(s, i)[k])}

\* the first chunk of the next size after position k, the first chunk of the
\* bin after the last size
next_head(s, i, k) ==
  IF \E j \in largebin_heads(s, i) : j > k
    THEN bin_chunks(s, i)[CHOOSE j \in largebin_heads(s, i) :
                            j > k /\ \A h \in largebin_heads(s, i) : h > k => j <= h]
    ELSE bin_chunks(s, i)[1]

\* C8: in every large bin the sizes do not increase along fd, the chunks
\* linked through fd_nextsize and bk_nextsize are the first chunk of each
\* size, and fd_nextsize leads from each of them to the first chunk of the
\* next smaller size and from the last back to the first chunk of the bin.
C8_LargeBinOrder ==
  \A i \in {b \in used_bins(St) : b >= NSMALLBINS} :
    /\ \A k \in 1..(Len(bin_chunks(St, i)) - 1) :
         chunksize(St, bin_chunks(St, i)[k]) >= chunksize(St, bin_chunks(St, i)[k + 1])
    /\ \A k \in 1..Len(bin_chunks(St, i)) :
         IF k \in largebin_heads(St, i)
           THEN /\ Fd_nextsize(St, bin_chunks(St, i)[k]) = next_head(St, i, k)
                /\ Bk_nextsize(St, next_head(St, i, k)) = bin_chunks(St, i)[k]
           ELSE Fd_nextsize(St, bin_chunks(St, i)[k]) = 0

\* a large bin holds chunks of two sizes
C8_Witness ==
  \E i \in {b \in used_bins(St) : b >= NSMALLBINS} : Cardinality(largebin_heads(St, i)) >= 2

\* C9: the usable size of a region a caller holds is at least the size the
\* caller requested.
C9_Usable == \A p \in DOMAIN live : musable(St, p) >= live[p].n

\* a caller holds a page-mapped region and a region of the arena that is
\* larger than requested
C9_Witness ==
  /\ \E p \in DOMAIN live : chunk_is_mmapped(St, mem2chunk(p))
  /\ \E p \in DOMAIN live :
       ~chunk_is_mmapped(St, mem2chunk(p)) /\ musable(St, p) > live[p].n

\* whether malloc_trim finds a whole page inside a chunk of the unsorted
\* queue or of a bin of page-sized chunks
page_in_bins(s) ==
  \E x \in bin_holdings(s) :
    /\ x[2] = 1 \/ x[2] >= bin_index(pagesize)
    /\ x[4] + chunksize(s, x[4]) - ALIGN_UP(x[4] + sizeof_malloc_chunk, pagesize) >= pagesize

C11_UsableArena ==
  (hist # << >> /\ Last.op = "realloc" /\ Last.n = Last.old /\ aborted = "") =>
    IF Last.mapped
      THEN /\ Last.ret # Last.p
           /\ Last.ret # 0 => kept_words(St, Last.ret, Last.old, Last.n)
      ELSE /\ Last.ret = Last.p
           /\ kept_words(St, Last.p, Last.old, Last.n)

\* a page-mapped region was reallocated to its usable size and a region
\* came back
C11_Witness ==
  /\ hist # << >> /\ Last.op = "realloc" /\ Last.n = Last.old /\ aborted = ""
  /\ Last.mapped /\ Last.ret # 0

\* realloc (p, malloc_usable_size (p)) returns p, for page-mapped regions too
C11_UsableSame ==
  (hist # << >> /\ Last.op = "realloc" /\ Last.n = Last.old /\ aborted = "") =>
    /\ Last.ret = Last.p
    /\ kept_words(St, Last.p, Last.old, Last.n)

\* C12: when the physical successor of the in-use chunk of p1 is a free
\* chunk on the unsorted queue or in a bin, realloc (p1, n) with a rounded
\* request that the two chunks together can hold returns p1.
C12_ExtendBinned ==
  (hist # << >> /\ Last.op = "realloc" /\ aborted = "" /\ Last.n > 0
     /\ Last.next = "binned" /\ request2size(Last.n) <= Last.room) =>
    Last.ret = Last.p

\* a chunk grew into its free successor
C12_Witness ==
  /\ hist # << >> /\ Last.op = "realloc" /\ aborted = ""
  /\ Last.next = "binned" /\ request2size(Last.n) <= Last.room
  /\ Last.size < request2size(Last.n)
  /\ Last.ret = Last.p
  /\ chunksize(St, mem2chunk(Last.p)) >= request2size(Last.n)

\* realloc (p1, n) returns p1 whenever the successor of p1 has been released
\* and the two chunks together can hold the request
C12_ExtendReleased ==
  (hist # << >> /\ Last.op = "realloc" /\ aborted = "" /\ Last.n > 0
     /\ Last.next \in {"binned", "cached"} /\ request2size(Last.n) <= Last.room) =>
    Last.ret = Last.p

C14_OldValid ==
  (hist # << >> /\ Last.op = "realloc" /\ aborted = "" /\ Last.n > 0 /\ Last.ret = 0) =>
    /\ Last.p \in DOMAIN live
    /\ chunksize(St, mem2chunk(Last.p)) = Last.size
    /\ chunk_is_mmapped(St, mem2chunk(Last.p)) = Last.mapped
    /\ musable(St, Last.p) = Last.old
    /\ kept_words(St, Last.p, Last.old, Last.old)
    /\ mem2chunk(Last.p) \notin binned_chunks(St) \cup cached_chunks(St)
    /\ errno = ENOMEM
    /\ call("__libc_free", <<St, MainThread, Last.p>>).err = ""

\* a reallocation of a region in the arena failed
C14_Witness ==
  /\ hist # << >> /\ Last.op = "realloc" /\ aborted = "" /\ Last.n > 0 /\ Last.ret = 0
  /\ ~Last.mapped

\* the latest two observed calls released the same region
released_twice ==
  /\ Len(hist) >= 2
  /\ hist[Len(hist)].op = "free" /\ hist[Len(hist) - 1].op = "free"
  /\ hist[Len(hist)].p = hist[Len(hist) - 1].p

two_out_two_in ==
  /\ Len(hist) = HistLen
  /\ hist[Len(hist) - 3].op = "free" /\ hist[Len(hist) - 2].op = "free"
  /\ hist[Len(hist) - 1].op = "malloc" /\ hist[Len(hist)].op = "malloc"
  /\ hist[Len(hist) - 3].size = hist[Len(hist) - 2].size
  /\ request2size(hist[Len(hist) - 1].n) = hist[Len(hist) - 2].size
  /\ request2size(hist[Len(hist)].n) = hist[Len(hist) - 2].size
  /\ \A k \in 0..3 : hist[Len(hist) - k].t = hist[Len(hist)].t
  /\ aborted = ""

\* C16: after free (p1) and free (p2) of two chunks of one size that both
\* went to the thread's tcache bucket, or both to the fast bin with the
\* tcache switched off, the next malloc of that size by the thread returns
\* p2 and the one after it returns p1.
C16_Lifo ==
  (/\ two_out_two_in
   /\ hist[Len(hist) - 3].place = hist[Len(hist) - 2].place
   /\ \/ hist[Len(hist) - 2].place = "tcache"
      \/ hist[Len(hist) - 2].place = "fast" /\ mp.tcache_count = 0) =>
    /\ hist[Len(hist) - 1].ret = hist[Len(hist) - 2].p
    /\ hist[Len(hist)].ret = hist[Len(hist) - 3].p

\* two chunks went to the tcache and came back in the reverse order
C16_Witness ==
  /\ two_out_two_in
  /\ hist[Len(hist) - 3].place = "tcache" /\ hist[Len(hist) - 2].place = "tcache"
  /\ hist[Len(hist) - 1].ret = hist[Len(hist) - 2].p
  /\ hist[Len(hist)].ret = hist[Len(hist) - 3].p

\* after free (p1) and free (p2) of two chunks of one small size the next
\* malloc of that size returns p2 and the one after it p1
C16_LifoAlways ==
  two_out_two_in =>
    /\ hist[Len(hist) - 1].ret = hist[Len(hist) - 2].p
    /\ hist[Len(hist)].ret = hist[Len(hist) - 3].p

\* an allocation of more than nothing has returned null
alloc_failed ==
  /\ hist # << >> /\ aborted = ""
  /\ Last.op \in {"malloc", "calloc", "memalign", "realloc"}
  /\ Last.n > 0 /\ Last.ret = 0

\* the regions callers held before the latest call are as they were
regions_intact ==
  /\ DOMAIN live = DOMAIN Last.pre.regions
  /\ \A m \in DOMAIN live : chunksize(St, mem2chunk(m)) = Last.pre.regions[m]

\* C17: an allocation that fails returns null with errno ENOMEM and leaves
\* the regions callers hold as they were; when the calling thread had its
\* tcache already, the memory obtained from the system and the end of the
\* top chunk are as before, and the top chunk starts where it did or lower.
C17_FailureContained ==
  alloc_failed =>
    /\ errno = ENOMEM
    /\ regions_intact
    /\ Last.pre.tinit =>
         /\ av.system_mem = Last.pre.system_mem
         /\ av.max_system_mem = Last.pre.max_system_mem
         /\ brk = Last.pre.brk /\ maps = Last.pre.maps
         /\ top(St) + chunksize(St, top(St)) = Last.pre.top + Last.pre.size
         /\ top(St) <= Last.pre.top

\* an allocation failed after it had merged free chunks into the top chunk
C17_Witness ==
  /\ alloc_failed /\ Last.pre.tinit /\ errno = ENOMEM
  /\ top(St) < Last.pre.top

\* an allocation that fails leaves the top chunk and the counters as before
C17_NoMutation ==
  alloc_failed =>
    /\ errno = ENOMEM
    /\ regions_intact
    /\ top(St) = Last.pre.top /\ chunksize(St, top(St)) = Last.pre.size
    /\ av.system_mem = Last.pre.system_mem
    /\ av.max_system_mem = Last.pre.max_system_mem

\* the latest three observed calls set the fast ceiling to c, allocated
\* c + d bytes and released the region
ceiling_probe(d) ==
  /\ Len(hist) >= 3 /\ aborted = ""
  /\ LET k == Len(hist)
     IN  /\ hist[k].op = "free" /\ hist[k - 1].op = "malloc" /\ hist[k - 2].op = "mallopt"
         /\ hist[k - 2].param = M_MXFAST /\ hist[k - 2].ret = 1
         /\ hist[k - 2].value > 0 /\ hist[k - 2].value <= 80
         /\ hist[k - 1].n = hist[k - 2].value + d
         /\ hist[k - 1].ret # 0 /\ hist[k].p = hist[k - 1].ret
         /\ hist[k].place # "tcache"

\* C18: with the fast ceiling set to c request bytes, 0 < c <= 80, the
\* release of a chunk obtained for exactly c bytes pushes it onto a fast bin
\* when it does not enter the tcache, and the release of a chunk obtained
\* for c + 1 bytes does not.
C18_CeilingIsFast ==
  /\ ceiling_probe(0) => Last.place = "fast"
  /\ ceiling_probe(1) => Last.place # "fast"

\* the latest observed call is an allocation by a thread that had its tcache,
\* of a chunk size at or above the mmap threshold, made while the number of
\* mapped chunks was below the cap and the system had a mapping to give, and
\* it returned a region
oversize_served ==
  /\ hist # << >> /\ aborted = ""
  /\ Last.op = "malloc" /\ Last.ret # 0 /\ Last.pre.tinit
  /\ request2size(Last.n) >= Last.pre.mmap_threshold
  /\ Last.pre.n_mmaps < Last.pre.n_mmaps_max
  /\ Cardinality(Last.pre.maps) < MaxMaps
  /\ ALIGN_UP(request2size(Last.n) + SIZE_SZ, pagesize) <= MmapSlot

\* the region the latest call returned lies in memory the arena held before
held_before ==
  /\ ~chunk_is_mmapped(St, mem2chunk(Last.ret))
  /\ brk = Last.pre.brk /\ maps = Last.pre.maps
  /\ av.system_mem = Last.pre.system_mem
  /\ Last.ret < Last.pre.top + Last.pre.size

\* C19: an allocation of a chunk size at or above the mmap threshold, made
\* while the mapped chunks are fewer than mmap-max, is served by page-mapping
\* unless the arena's bins or top chunk already hold space for it: the heap
\* is not extended for it.
C19_MappedUnlessHeld ==
  oversize_served =>
    \/ /\ chunk_is_mmapped(St, mem2chunk(Last.ret))
       /\ mp.n_mmaps = Last.pre.n_mmaps + 1
       /\ brk = Last.pre.brk
    \/ held_before

\* an allocation above the threshold was served from space the arena held
C19_Witness == oversize_served /\ held_before

\* an allocation at or above the threshold is always page-mapped
C19_AlwaysMapped == oversize_served => chunk_is_mmapped(St, mem2chunk(Last.ret))

\* the latest observed call is an allocation or a reallocation
alloc_returned ==
  /\ hist # << >> /\ aborted = ""
  /\ Last.op \in {"malloc", "realloc"}

arena_release ==
  /\ hist # << >> /\ aborted = ""
  /\ Last.op = "free" /\ Last.err = "" /\ ~Last.mapped

\* the bytes the latest release gave back to the system
released_bytes == Last.brk0 - brk

\* the size the top chunk had when the latest release had coalesced
top_before_trim == chunksize(St, top(St)) + released_bytes

\* the size of the free chunk the latest release has made of its chunk
freed_span ==
  LET p == mem2chunk(Last.p)
      within == {q \in binned_chunks(St) : q <= p /\ p < q + chunksize(St, q)}
  IN  IF top(St) <= p THEN top_before_trim
      ELSE IF within = {} THEN 0
      ELSE chunksize(St, CHOOSE q \in within : TRUE)

\* C21: a release tries to give the tail of the top chunk back exactly when
\* it has coalesced its chunk into a free chunk of at least
\* FASTBIN_CONSOLIDATION_THRESHOLD bytes and the top chunk is then at or
\* above the trim threshold; the release of a chunk of at least that size
\* always tries when the top chunk is at or above the threshold.
C21_TrimAfterLargeFree ==
  arena_release =>
    /\ Last.systrims <= 1
    /\ released_bytes > 0 => Last.systrims = 1
    /\ Last.systrims = 1 =>
         /\ Last.place = "arena"
         /\ freed_span >= FASTBIN_CONSOLIDATION_THRESHOLD
         /\ UGE(top_before_trim, mp.trim_threshold)
    /\ (Last.csize >= FASTBIN_CONSOLIDATION_THRESHOLD
          /\ UGE(top_before_trim, mp.trim_threshold)) => Last.systrims = 1

\* a release has given pages of the top chunk back to the system
C21_Witness == arena_release /\ Last.systrims = 1 /\ released_bytes > 0

\* every release that leaves the top chunk at or above the trim threshold
\* tries to trim
C21_TrimWheneverAbove ==
  (arena_release /\ mp.trim_threshold # -1 /\ UGE(top_before_trim, mp.trim_threshold))
    => Last.systrims >= 1

\* the chunk the latest release was given ended where the top chunk began
abutted_top == arena_release /\ mem2chunk(Last.p) + Last.csize = Last.top0

\* the chunk of the latest release is part of the top chunk
merged_into_top ==
  /\ top(St) <= mem2chunk(Last.p)
  /\ mem2chunk(Last.p) \notin cached_chunks(St) \cup binned_chunks(St)

\* C22: the release of a chunk that abuts the top chunk merges it into the
\* top chunk unless the thread's tcache bucket has room for it or it is of
\* a fast size; then it goes to the tcache or the fast bin and the top chunk
\* stays where it was.
C22_MergedUnlessCached ==
  abutted_top =>
    IF Last.cacheable THEN Last.place = "tcache" /\ top(St) = Last.top0
    ELSE IF Last.fastsize THEN Last.place = "fast" /\ top(St) = Last.top0
    ELSE merged_into_top

\* a chunk that abutted the top chunk was merged into it
C22_Witness == abutted_top /\ ~Last.cacheable /\ ~Last.fastsize /\ merged_into_top

\* every release of a chunk that abuts the top chunk merges it into the top
C22_AlwaysMerged == abutted_top => merged_into_top

RECURSIVE next_power(_, _)
\* the least power of two that is at least a, counted up from k
next_power(k, a) == IF k >= a THEN k ELSE next_power(2 * k, a)

\* the latest observed call is an aligned allocation that returned a region
aligned_returned ==
  /\ hist # << >> /\ aborted = ""
  /\ Last.op = "memalign" /\ Last.ret # 0

\* C24: a successful aligned allocation returns a pointer that is a
\* multiple of the alignment rounded up to a power of two (so of the
\* alignment itself when that is a power of two), to a chunk that holds at
\* least the bytes asked for and at least the minimum chunk size.
C24_Aligned ==
  aligned_returned =>
    /\ Last.ret % next_power(1, Last.align) = 0
    /\ powerof2(Last.align) => Last.ret % Last.align = 0
    /\ musable(St, Last.ret) >= Last.n
    /\ chunksize(St, mem2chunk(Last.ret)) >= MINSIZE
    /\ Last.ret \in DOMAIN live

\* an aligned region was cut out of a larger chunk and the leader in front
\* of it was released
C24_Witness ==
  /\ aligned_returned /\ Last.align = pagesize
  /\ ~chunk_is_mmapped(St, mem2chunk(Last.ret))
  /\ ~prev_inuse(St, mem2chunk(Last.ret))
  /\ prev_size(St, mem2chunk(Last.ret)) >= MINSIZE


\* the last call was a calloc that returned a region
cleared_returned ==
  /\ hist # << >>
  /\ Last.op = "calloc"
  /\ Last.err = ""
  /\ Last.ret # 0

\* C25: every byte of the region a successful calloc returns is zero,
\* whatever was written there before, also when the region is cut from a top
\* that was extended over memory the heap had given back and taken again
C25_Cleared ==
  cleared_returned =>
    \A a \in DOMAIN mem : ~(Last.ret <= a /\ a < Last.ret + Last.n)

\* a calloc served from the top, which was extended for it over memory the
\* heap had owned before a trim
C25_Witness ==
  /\ cleared_returned
  /\ Last.ret = chunk2mem(Last.pre.top)
  /\ Last.pre.size < Last.n
  /\ Last.pre.brk < InitialBrk + Last.pre.max_system_mem
  /\ aborted = ""


\* the last call was a pvalloc
pvalloc_called ==
  /\ hist # << >>
  /\ Last.op = "pvalloc"

\* C27: pvalloc (n) passes the smallest multiple of the page size that is at
\* least n to the aligned allocation, and returns null with ENOMEM when the
\* rounding overflows
C27_RoundedToPage ==
  pvalloc_called =>
    IF pvalloc_overflow(Last.n)
      THEN Last.ret = 0 /\ Last.errno = ENOMEM
      ELSE /\ Last.passed % pagesize = 0
           /\ UGE(Last.passed, Last.n)
           /\ ULT(Last.passed - Last.n, pagesize)


\* the last call was a pwrite64 whose final repositioning was made and succeeded
repositioned ==
  /\ hist # << >>
  /\ Last.op = "pwrite64"
  /\ Len(Last.log) = 4
  /\ Last.log[4].ret # -1

\* C26: whenever the final repositioning of pwrite64 succeeds the file pointer
\* is where it was before the call, whether the write succeeded or failed, the
\* value returned is the result of the write, and the bytes the write took
\* are in the file from the given offset on
C26_PointerKept ==
  repositioned =>
    /\ fdesc.pos = Last.pos0
    /\ Last.ret = Last.log[3].ret
    /\ \A i \in 0..(Last.ret - 1) : fdesc.data[Last.offset + i] = Last.b

\* a block written away from the file pointer, which was put back
C26_Witness ==
  /\ repositioned
  /\ Last.offset # Last.pos0
  /\ Last.pos0 > 0
  /\ Last.ret = MaxNbyte

\* a failed write after which the file pointer was put back
repositioned_after_failure ==
  /\ repositioned
  /\ Last.offset # Last.pos0
  /\ Last.ret = -1


\* the last call was a malloc of a non-fast size that went on to scan the
\* unsorted list, with have_fastchunks set when it left the fast bins behind
scan_with_fastchunks ==
  /\ hist # << >>
  /\ Last.op = "malloc"
  /\ Last.scanned # << >>
  /\ UGT(Last.scanned[1].nb, global_max_fast)
  /\ Last.scanned[1].flag0

\* every fast bin was empty as the scan started
scan_found_none == \A i \in DOMAIN Last.scanned[1].fast : Last.scanned[1].fast[i] = 0

\* C30: an allocation of a non-fast size that is about to scan the unsorted
\* list and the bins while have_fastchunks is set runs malloc_consolidate
\* first, so that every fast bin is empty as the scan starts, for requests in
\* small-bin range that miss their small bin as for large requests
C30_ConsolidatedBeforeScan == scan_with_fastchunks => scan_found_none

\* C30, amended: a large request consolidates before the scan; a request in
\* small-bin range that misses its small bin starts the scan with the fast
\* bins as they were
C30_LargeConsolidatesBeforeScan ==
  scan_with_fastchunks =>
    IF in_smallbin_range(Last.scanned[1].nb)
      THEN Last.scanned[1].fast = Last.scanned[1].fast0
      ELSE scan_found_none

\* a large request met fast chunks and emptied the fast bins before its scan
C30_Witness ==
  /\ scan_with_fastchunks
  /\ ~in_smallbin_range(Last.scanned[1].nb)
  /\ \E i \in DOMAIN Last.scanned[1].fast0 : Last.scanned[1].fast0[i] # 0
  /\ scan_found_none
  /\ aborted = ""


\* the words of the arena in m: top, last_remainder and the bins
ArenaWords(m) == [a \in {x \in DOMAIN m : x >= ArenaBase /\ x < BinsEnd} |-> m[a]]

\* a step changes the bins, the binmap, top, last_remainder or the
\* system-memory counters
ArenaMutated ==
  \/ ArenaWords(mem') # ArenaWords(mem)
  \/ av'.binmap # av.binmap
  \/ av'.system_mem # av.system_mem
  \/ av'.max_system_mem # av.max_system_mem

\* the step is taken by the thread that holds the mutex before and after it
HeldByActor ==
  /\ cc.mutex # 0
  /\ cc'.mutex = cc.mutex
  /\ cc'.actor = cc.mutex

fastbin_list(i) == fast_chain(St, av.fastbinsY[i], ChainFuel)

\* C28: while one thread pops from a fast bin or consolidates it under the
\* mutex and others push onto it with compare-and-exchange, no chunk is lost
\* and none appears twice: the chunks on the fast bins are those pushed and
\* neither popped nor consolidated, each once, and none of them is held by a
\* caller or about to be handed to one
C28_NoneLostNoneTwice ==
  /\ ~cc.lost
  /\ \A i \in 0..(NFASTBINS - 1) :
       Cardinality({fastbin_list(i)[k] : k \in DOMAIN fastbin_list(i)}) = Len(fastbin_list(i))
  /\ \A i \in 0..(NFASTBINS - 1), j \in 0..(NFASTBINS - 1) :
       i # j => {fastbin_list(i)[k] : k \in DOMAIN fastbin_list(i)}
                \cap {fastbin_list(j)[k] : k \in DOMAIN fastbin_list(j)} = {}
  /\ fast_members(St) = cc.infast
  /\ \A m \in DOMAIN live : live[m].cnt = 1 /\ mem2chunk(m) \notin cc.infast
  /\ \A t \in Threads :
       cc.th[t].ret # 0 => /\ cc.th[t].ret \notin DOMAIN live
                           /\ mem2chunk(cc.th[t].ret) \notin cc.infast

\* a pop whose compare-and-exchange failed because of a push, and succeeded
\* when tried again, with a chunk left on the fast bins
C28_Witness ==
  \E t \in Threads :
    /\ cc.th[t].pc = "m_unlock"
    /\ cc.th[t].retried
    /\ cc.th[t].ret # 0
    /\ cc.infast # {}
    /\ aborted = ""

\* no thread is within a call
AllIdle == \A t \in Threads : cc.th[t].pc = "idle"

\* C29: at every point between operations a non-empty fast bin implies that
\* have_fastchunks is set, also when releases run together with
\* malloc_consolidate
C29_FastBinsFlagged ==
  AllIdle => ((\E i \in 0..(NFASTBINS - 1) : av.fastbinsY[i] # 0) => av.have_fastchunks)

\* C29, amended: a chunk on a fast bin whose release did not have its
\* have_fastchunks cleared before the push implies that have_fastchunks is
\* set, unless a malloc_consolidate is under way that has cleared it and not
\* yet reached the chunk's bin
C29_UnracedFlagged ==
  cc.infast \ cc.unflagged # {} =>
    \/ av.have_fastchunks
    \/ \E t \in Threads :
         /\ cc.th[t].pc = "c_xchg"
         /\ \A x \in cc.infast \ cc.unflagged :
              fastbin_index(chunksize(St, x)) >= cc.th[t].i

\* between operations, after a malloc_consolidate ran step by step, a chunk is
\* on a fast bin and have_fastchunks is set
C29_Witness ==
  /\ AllIdle
  /\ cc.swept
  /\ cc.infast \ cc.unflagged # {}
  /\ av.have_fastchunks
  /\ aborted = ""

\* C31, as stated: in one pass of the unsorted loop at most MAX_ITERS chunks
\* are taken off the list, the stashed ones counted
C31_TakenWithinLimit == cc.drain.taken <= MAX_ITERS

\* C31: in one pass of the unsorted loop at most MAX_ITERS chunks are sorted
\* into bins; the chunks stashed in the tcache are not counted by iters, so
\* the chunks taken off the list are at most MAX_ITERS, plus the places the
\* bucket had, plus the one the call returns
C31_BinnedWithinLimit ==
  /\ cc.drain.binned = cc.drain.iters + (IF cc.drain.pc = "cached" THEN 1 ELSE 0)
  /\ cc.drain.binned <= MAX_ITERS
  /\ cc.drain.stashed <= cc.drain.tcache_count
  /\ cc.drain.taken = cc.drain.binned + cc.drain.stashed
                        + (IF cc.drain.pc = "exact" THEN 1 ELSE 0)
  /\ (cc.drain.pc = "loop" => cc.drain.iters < MAX_ITERS)

\* the loop ended at its limit after it had stashed a chunk
C31_Witness ==
  /\ cc.drain.pc = "after"
  /\ cc.drain.iters = MAX_ITERS
  /\ cc.drain.stashed > 0
  /\ cc.drain.taken > MAX_ITERS

\* the latest call is an allocation that stashed chunks of the unsorted list
stash_drain ==
  /\ hist # << >>
  /\ Last.op = "malloc"
  /\ Last.err = ""
  /\ Last.stash # << >>

\* the latest call is an allocation that reached the unsorted loop with an
\* initialised tcache that takes chunks, and a chunk of the requested size
\* was on the unsorted list
stash_fit ==
  /\ hist # << >>
  /\ Last.op = "malloc"
  /\ Last.err = ""
  /\ Last.scanned # << >>
  /\ Last.pre.tinit
  /\ mp.tcache_count > 0
  /\ csize2tidx(Last.scanned[1].nb) < mp.tcache_bins
  /\ (in_smallbin_range(Last.scanned[1].nb) \/ ~Last.scanned[1].flag0)
  /\ \E k \in DOMAIN Last.pre.unsorted : Last.pre.unsorted[k] = Last.scanned[1].nb

\* the bucket of the latest allocation's size, from its head
stash_bucket ==
  tcache_list(St, tcache[Last.t].entries[csize2tidx(Last.scanned[1].nb)], WalkFuel)

stash_first_returned == stash_drain => Last.ret = chunk2mem(Last.stash[1])

\* the bucket was full and the allocation returned a chunk it had not stashed
stash_full_returned ==
  /\ stash_fit
  /\ \A i \in DOMAIN Last.stash : Last.ret # chunk2mem(Last.stash[i])

\* the latest call is a large allocation served from a small or large bin
picked_large ==
  /\ hist # << >>
  /\ Last.op = "malloc"
  /\ Last.err = ""
  /\ Last.picked # << >>
  /\ ~in_smallbin_range(request2size(Last.n))

\* the chunks left in the small and large bins
bins_left == UNION {{bin_chunks(St, i)[k] : k \in DOMAIN bin_chunks(St, i)} :
                      i \in used_bins(St) \ {1}}

\* C33: a large request served from a bin gets a chunk of the least size
\* among the chunks of the small and large bins that fit, and when another
\* chunk of that size is in the bins, the chunk taken is not the one on the
\* skip list
C33_BestFit ==
  picked_large =>
    /\ Last.picked[1].size >= request2size(Last.n)
    /\ Last.ret = chunk2mem(Last.picked[1].victim)
    /\ \A c \in bins_left :
         chunksize(St, c) >= request2size(Last.n) => chunksize(St, c) >= Last.picked[1].size
    /\ (\E c \in bins_left : chunksize(St, c) = Last.picked[1].size) => ~Last.picked[1].rep

\* a large request took the smaller chunk of its bin and left a larger one
C33_Witness ==
  /\ picked_large
  /\ Last.picked[1].from = "own"
  /\ \E c \in bins_left : chunksize(St, c) > Last.picked[1].size
  /\ aborted = ""

\* a large request took the second of two chunks of one size
picked_second ==
  /\ picked_large
  /\ Last.picked[1].from = "own"
  /\ \E c \in bins_left : chunksize(St, c) = Last.picked[1].size
  /\ aborted = ""

\* a large request took a chunk of a higher bin found through the binmap
picked_by_scan ==
  /\ picked_large
  /\ Last.picked[1].from = "scan"
  /\ aborted = ""

\* bin i is empty in the memory m
BinEmpty(m, i) == first([mem |-> m], bin_at(i)) = bin_at(i)

\* bit i of the binmap b
BinBit(b, i) == HasBit(b[idx2block(i)], idx2bit(i))

\* after every call a bin that holds a chunk has its bit set
BinmapCovers == \A i \in 2..(NBINS - 1) : ~BinEmpty(mem, i) => BinBit(av.binmap, i)

\* a call that clears the bit of a bin finds the bin empty and leaves it so
ClearedWhenEmpty ==
  \A i \in 2..(NBINS - 1) :
    BinBit(av.binmap, i) /\ ~BinBit(av'.binmap, i) => BinEmpty(mem, i) /\ BinEmpty(mem', i)

\* C34: for every small or large bin i >= 2, after every call: if bin i is
\* not empty, bit i of the binmap is set; a set bit of an empty bin is
\* cleared only by a call that finds that bin empty
C34_Binmap == []BinmapCovers /\ [][ClearedWhenEmpty]_vars

\* an allocation cleared the bit of an empty bin and left the bit of another
\* bin, which holds a chunk, set
C34_Witness ==
  /\ hist # << >>
  /\ Last.op = "malloc"
  /\ \E i \in 2..(NBINS - 1) :
       BinBit(Last.pre.binmap, i) /\ ~BinBit(av.binmap, i) /\ BinEmpty(mem, i)
  /\ \E i \in 2..(NBINS - 1) : ~BinEmpty(mem, i) /\ BinBit(av.binmap, i)
  /\ aborted = ""

\* the bit of an empty bin is set
stale_bit ==
  /\ \E i \in 2..(NBINS - 1) : BinEmpty(mem, i) /\ BinBit(av.binmap, i)
  /\ aborted = ""

\* C35: once the arena has memory, after every call its top chunk exists,
\* has its P bit set and is at least MINSIZE large
C35_TopChunk ==
  av.system_mem > 0 =>
    /\ top(St) # initial_top
    /\ prev_inuse(St, top(St))
    /\ chunksize(St, top(St)) >= MINSIZE

\* the arena went on in mapped memory: the top chunk lies in a mapping
C35_Witness ==
  /\ av.system_mem > 0
  /\ ~contiguous(St)
  /\ top(St) >= MmapBase
  /\ aborted = ""

\* the top chunk begins above a foreign part of the break
top_above_foreign ==
  /\ contiguous(St)
  /\ \E a \in DOMAIN mem : a >= InitialBrk /\ a < top(St) /\ mem[a] = 2 * SIZE_SZ + PREV_INUSE
  /\ aborted = ""

\* what the chunk of the region p has more than the request rounded up
excess(p) == chunksize(St, mem2chunk(p)) - request2size(live[p].n)

\* C36: every chunk of the arena that malloc (n) returned has at least the
\* size request2size (n) and less than MINSIZE more
C36_Excess ==
  \A p \in DOMAIN live :
    ~chunk_is_mmapped(St, mem2chunk(p)) => excess(p) >= 0 /\ excess(p) < MINSIZE

\* a caller holds a chunk that was split off a binned one, the rest of which
\* is the last remainder
split_exact ==
  \E p \in DOMAIN live :
    /\ excess(p) = 0
    /\ last_remainder(St) = chunk_at_offset(mem2chunk(p), chunksize(St, mem2chunk(p)))

\* a caller holds a chunk that was handed out whole with an excess, a binned
\* chunk whose rest was too small to stand alone, next to a chunk of the
\* exact size
C36_Witness ==
  /\ \E p \in DOMAIN live :
       /\ ~chunk_is_mmapped(St, mem2chunk(p))
       /\ excess(p) > 0
  /\ \E p \in DOMAIN live : excess(p) = 0
  /\ aborted = ""

\* the foreign pages below which the arena ends: the arena began below g and
\* the page below g is not foreign
gaps == {g \in cc.foreign : mp.sbrk_base # 0 /\ mp.sbrk_base < g
                             /\ (g - pagesize) \notin cc.foreign}

\* where the part of the arena that ends at the gap g begins
part_base(g) ==
  LET below == {f \in cc.foreign : f < g /\ f + pagesize > mp.sbrk_base}
  IN  IF below = {} THEN heap_base(St)
      ELSE (CHOOSE f \in below : \A h \in below : h <= f) + pagesize

RECURSIVE steps_to(_, _, _, _)
\* stepping from chunk p by the sizes arrives at the chunk q
steps_to(s, p, q, fuel) ==
  IF p = q THEN TRUE
  ELSE IF fuel = 0 \/ p > q \/ chunksize(s, p) = 0 THEN FALSE
  ELSE steps_to(s, p + chunksize(s, p), q, fuel - 1)

\* the arena has gone on beyond the gap g
beyond(s, g) == top(s) # initial_top /\ top(s) > g

\* the two fenceposts stand below g, in use, and the chunks before them end
\* where the first begins
Fenced(g) ==
  /\ Rd(St, (g - 2 * SIZE_SZ) + SIZE_SZ) = 2 * SIZE_SZ + PREV_INUSE
  /\ chunksize(St, g - 4 * SIZE_SZ) = 2 * SIZE_SZ
  /\ steps_to(St, part_base(g), g - 4 * SIZE_SZ, WalkFuel)

GapsFenced == aborted = "" => \A g \in gaps : beyond(St, g) => Fenced(g)

\* the call that takes the arena beyond the gap g shrinks the old top by
\* 4 * SIZE_SZ, releases it when MINSIZE is left, and begins the new part at
\* the break it got or at the mapping it got
GapCrossed ==
  \A g \in gaps :
    (aborted' = "" /\ top(St) # initial_top /\ top(St) < g /\ top(St') > g) =>
      LET old_top == top(St)
          old_size == chunksize(St, old_top) - 4 * SIZE_SZ
          base == IF maps' = maps THEN brk
                  ELSE (CHOOSE r \in maps' \ maps : TRUE).base
      IN  /\ old_top + old_size = g - 4 * SIZE_SZ
          /\ old_size >= MINSIZE =>
                /\ chunksize(St', old_top) = old_size
                /\ old_top \notin {mem2chunk(p) : p \in DOMAIN live'}
                /\ \/ ~prev_inuse(St', g - 4 * SIZE_SZ)
                   \/ old_size <= global_max_fast
          /\ prev_inuse(St', base)
          /\ top(St') \in {base, base + chunksize(St', base)}

\* C37: when the arena is extended and the new part does not begin where the
\* old top ends, the old top is shrunk and closed by two in-use chunks of
\* 2 * SIZE_SZ bytes, what is left of it is released when it has MINSIZE
\* bytes, and the new top begins at the aligned base of the new part; from
\* then on the two fenceposts stay, so no chunk reaches across the gap
C37_Fencepost == []GapsFenced /\ [][GapCrossed]_vars

\* the arena went beyond a foreign page, a chunk below the fenceposts was
\* released after that and the chunk left of the old top is free
C37_Witness ==
  /\ \E g \in gaps :
       /\ beyond(St, g)
       /\ Fenced(g)
       /\ ~prev_inuse(St, g - 4 * SIZE_SZ)
       /\ part_base(g) + prev_size(St, g - 4 * SIZE_SZ) < g - 4 * SIZE_SZ
  /\ hist # << >> /\ Last.op = "free"
  /\ aborted = ""

\* the chunk that the call free (m) found was mapped, larger than the mmap
\* threshold and not above DEFAULT_MMAP_THRESHOLD_MAX, and no mallopt had
\* fixed the thresholds
in_band(r) ==
  /\ r.mapped
  /\ r.csize > mp.mmap_threshold
  /\ r.csize <= DEFAULT_MMAP_THRESHOLD_MAX
  /\ mp.no_dyn_threshold = 0

\* what a call of free does to the two thresholds
DynamicThreshold ==
  LET r == hist'[Len(hist')]
  IN  r.op = "free" =>
        /\ in_band(r) => /\ mp'.mmap_threshold = r.csize
                          /\ mp'.trim_threshold = 2 * r.csize
        /\ ~in_band(r) => /\ mp'.mmap_threshold = mp.mmap_threshold
                           /\ mp'.trim_threshold = mp.trim_threshold
        /\ mp'.mmap_threshold >= mp.mmap_threshold
        /\ mp.no_dyn_threshold # 0 => mp'.no_dyn_threshold # 0

freed_pinned ==
  /\ hist # << >>
  /\ Last.op = "free" /\ Last.mapped
  /\ mp.no_dyn_threshold # 0
  /\ Last.csize > mp.mmap_threshold
  /\ Last.csize <= DEFAULT_MMAP_THRESHOLD_MAX
  /\ aborted = ""

\* a mapped chunk above DEFAULT_MMAP_THRESHOLD_MAX was released
freed_over_max ==
  /\ hist # << >>
  /\ Last.op = "free" /\ Last.mapped
  /\ Last.csize > DEFAULT_MMAP_THRESHOLD_MAX
  /\ mp.no_dyn_threshold = 0
  /\ aborted = ""

\* a mapped chunk of exactly the mmap threshold was released
freed_at_threshold ==
  /\ Len(hist) >= 2
  /\ Last.op = "free" /\ Last.mapped
  /\ hist[Len(hist) - 1].op = "free" /\ hist[Len(hist) - 1].mapped
  /\ Last.csize = hist[Len(hist) - 1].csize
  /\ mp.mmap_threshold = Last.csize
  /\ mp.no_dyn_threshold = 0
  /\ aborted = ""

\* the holdings of the arena's free lists and of the top that the chunk c
\* lies in
free_around(c) ==
  {x \in fast_holdings(St) \cup bin_holdings(St) \cup top_holdings(St) :
     x[4] <= c /\ c < x[4] + chunksize(St, x[4])}

\* the chunk c is with every caller, tcache structure and bucket unknown
let_go(c) ==
  \A x \in inuse_holdings(St, live) \cup tcache_holdings(St) : x[4] # c

\* C39: when tcache_thread_shutdown has returned, every chunk that was in a
\* bucket of the thread and the chunk of the tcache structure is free in the
\* arena, on one place of one list or within one free chunk or the top, and
\* in no tcache; from then on the thread's tcache pointer is NULL, its
\* buckets are empty and no release of the thread goes to a tcache
C39_Shutdown ==
  aborted = "" =>
    /\ \A t \in Threads :
         tcache[t].shutting_down =>
           /\ tcache[t].ptr = 0
           /\ \A i \in 0..(TCACHE_MAX_BINS - 1) : tcache[t].entries[i] = 0
    /\ (hist # << >> /\ Last.op = "shutdown" /\ Last.struct # 0) =>
         /\ tcache[Last.t].shutting_down
         /\ \A c \in Last.cached \cup {mem2chunk(Last.struct)} :
              let_go(c) /\ Cardinality(free_around(c)) = 1
    /\ (hist # << >> /\ Last.op = "free" /\ tcache[Last.t].shutting_down) =>
         Last.place # "tcache"

\* a thread that had two chunks in its buckets has exited
C39_Witness ==
  /\ hist # << >>
  /\ Last.op = "shutdown" /\ Last.struct # 0
  /\ Cardinality(Last.cached) = 2
  /\ tcache[Last.t].ptr = 0
  /\ aborted = ""

\* a thread has exited and then released a region that its tcache would
\* have had room for
free_after_shutdown ==
  /\ Len(hist) >= 2
  /\ hist[Len(hist) - 1].op = "shutdown" /\ hist[Len(hist) - 1].struct # 0
  /\ Last.op = "free" /\ Last.t = hist[Len(hist) - 1].t
  /\ Last.place # "tcache"
  /\ aborted = ""

\* a chunk that lay in a bucket when the thread exited is within the top
merged_after_shutdown ==
  /\ hist # << >>
  /\ Last.op = "shutdown"
  /\ \E c \in Last.cached : \E x \in free_around(c) : x[1] = "top"
  /\ aborted = ""

\* a thread has exited and allocated since, and holds what it got
malloc_after_shutdown ==
  /\ hist # << >>
  /\ Last.op = "malloc" /\ Last.ret # 0
  /\ tcache[Last.t].shutting_down
  /\ aborted = ""

\* the exit of a thread that never had a tcache
shutdown_without_tcache ==
  /\ hist # << >>
  /\ Last.op = "shutdown" /\ Last.struct = 0
  /\ aborted = ""

\* C40: no call asks for the mutex of the arena while it holds it, every
\* release made inside the engine with have_lock set is made while the
\* mutex is held, and every call that returns, with a result or with a
\* failure, returns without the mutex
C40_LockDiscipline ==
  hist # << >> =>
    /\ ~Last.locks.relock
    /\ ~Last.locks.bare
    /\ Last.err = "" => ~Last.locks.held

\* memalign took the mutex once, gave back the room before or after the
\* aligned chunk with have_lock set, and returned without the mutex
C40_Witness ==
  /\ hist # << >>
  /\ Last.op = "memalign" /\ Last.ret # 0 /\ Last.err = ""
  /\ Last.locks.n = 1 /\ ~Last.locks.held
  /\ Last.pre.top # initial_top
  /\ chunksize(St, top(St)) + chunksize(St, mem2chunk(Last.ret))
       < Last.pre.size
  /\ aborted = ""

\* a call that failed took the mutex and returned without it
failed_unlocked ==
  /\ hist # << >>
  /\ Last.op \in {"malloc", "calloc", "memalign", "realloc"}
  /\ Last.ret = 0 /\ Last.err = "" /\ Last.n = TooMuch
  /\ Last.locks.n >= 1 /\ ~Last.locks.held
  /\ aborted = ""

\* a call took the mutex more than once
locked_twice ==
  /\ hist # << >>
  /\ Last.locks.n >= 2
  /\ aborted = ""

\* a release took the mutex
free_locked ==
  /\ hist # << >>
  /\ Last.op = "free" /\ Last.locks.n = 1
  /\ aborted = ""

====
